---- MODULE Spec2Model ----
(***************************************************************************)
(* ICS-04 packet timeout handler of the ibc modules crate                   *)
(* (modules/src/ics04_channel/handler/timeout.rs): the handler `process`    *)
(* as an operator over a reader (the ledger sub-store) and a MsgTimeout,    *)
(* and the ledger around it: a store built the way the handler's unit test  *)
(* builds its MockContext, messages processed against it, and the caller    *)
(* persisting the returned PacketResult.  A second part models the decoding *)
(* of ledger events into IbcEvents (modules/src/events.rs and               *)
(* modules/src/ics04_channel/events.rs).                                    *)
(***************************************************************************)
EXTENDS Integers, Sequences, FiniteSets, TLC

(***************************************************************************)
(* Bounds of the model.                                                     *)
(***************************************************************************)
\* packet sequences are 1..MaxSeq (u64, >= 1)
MaxSeq == 2
\* heights are 0..MaxHeight within one revision (0 = "no timeout by height")
MaxHeight == 2
\* timestamps are 0..MaxTime (u64 nanoseconds, 0 = disabled)
MaxTime == 1

(***************************************************************************)
(* Identifiers and values.                                                  *)
(***************************************************************************)
\* Option<T>: None is the empty sequence, Some(x) the one-element sequence
None == <<>>
Some(x) == <<x>>
IsSome(o) == o # None
Unwrap(o) == o[1]

PortIds == {"transfer", "other"}
ChannelIds == {"channel-0", "channel-1"}
ConnectionIds == {"connection-0", "connection-1"}
ClientIds == {"client-0", "client-1"}
PacketData == {"d1", "d2"}

Sequences == 1..MaxSeq
\* Height, restricted to revision 0 as in the unit test (Height::new(0, h))
Heights == 0..MaxHeight
Timestamps == 0..MaxTime

\* ics04_channel::channel::State and Order, as named by the handler
States == {"Init", "TryOpen", "Open", "Closed"}
Orders == {"Unordered", "Ordered"}

\* Height::is_zero
IsZero(h) == h = 0

\* Counterparty::new(port_id, channel_id)
Counterparty(port, chan) == [port_id |-> port, channel_id |-> chan]

\* ChannelEnd::new(state, ordering, remote, connection_hops, version)
ChannelEnd(state, ordering, remote, hops, version) ==
    [state |-> state, ordering |-> ordering, counterparty |-> remote,
     connection_hops |-> hops, version |-> version]

\* ConnectionEnd, reduced to the field the handler reads (client_id)
ConnectionEnd(client) == [state |-> "Open", client_id |-> client]

\* ChannelEnd::state_matches / order_matches / counterparty_matches
state_matches(end, s) == end.state = s
order_matches(end, o) == end.ordering = o
counterparty_matches(end, other) == end.counterparty = other

(***************************************************************************)
(* The reader (ChannelReader): a MockContext.                               *)
(*   channels     (port, channel)      -> Option<ChannelEnd>                *)
(*   connections  connection id        -> Option<ConnectionEnd>             *)
(*   clients      client id            -> Option<client record>; the record *)
(*                holds the client's frozen flag and its consensus states,  *)
(*                height -> Option<ConsensusState>                          *)
(*   commitments  (port, channel, seq) -> Option<stored hash>               *)
(*   caps         ports with a capability                                   *)
(*   receipts     (port, channel, seq) with a packet receipt                *)
(*   next_sequence_recv  (port, channel) -> Option<Sequence>                *)
(* The timeout handler reads neither receipts nor next_sequence_recv: the   *)
(* counterparty's are proved by the message's proofs.                       *)
(***************************************************************************)
ChanKeys == PortIds \X ChannelIds
CommitKeys == PortIds \X ChannelIds \X Sequences

\* MockContext::default()
DefaultContext ==
    [channels |-> [k \in ChanKeys |-> None],
     connections |-> [c \in ConnectionIds |-> None],
     clients |-> [c \in ClientIds |-> None],
     commitments |-> [k \in CommitKeys |-> None],
     caps |-> {},
     receipts |-> {},
     next_sequence_recv |-> [k \in ChanKeys |-> None]]

\* ChannelReader lookups
channel_end(ctx, key) == ctx.channels[key]
connection_end(ctx, conn) ==
    IF conn \in DOMAIN ctx.connections THEN ctx.connections[conn] ELSE None
client_consensus_state(ctx, client, h) ==
    IF client \in DOMAIN ctx.clients /\ IsSome(ctx.clients[client])
    THEN Unwrap(ctx.clients[client]).consensus[h]
    ELSE None
client_state(ctx, client) ==
    IF client \in DOMAIN ctx.clients THEN ctx.clients[client] ELSE None
get_packet_commitment(ctx, key) == ctx.commitments[key]
authenticated_capability(ctx, port) == port \in ctx.caps

\* format!("{:?},{:?},{:?}", timeout_timestamp, timeout_height, data)
CommitmentInput(packet) ==
    <<packet.timeout_timestamp, packet.timeout_height, packet.data>>

\* ChannelReader::hash: a collision-free digest of its input
Hash(input) == <<"hash", input>>

(***************************************************************************)
(* Handler results.                                                         *)
(***************************************************************************)
NoError == [kind |-> "none", args |-> <<>>]
Kind(kind, args) == [kind |-> kind, args |-> args]

\* Err(kind): the handler returns the error alone; the output builder is dropped
Err_KeepsLog(e) ==
    [ok |-> FALSE, err |-> e, result |-> None, events |-> <<>>,
     log |-> <<"error: packet timeout ">>]
Err(e) == [ok |-> FALSE, err |-> e, result |-> None, events |-> <<>>, log |-> <<>>]

\* HandlerOutput::builder(), .log(), .emit(), .with_result()
OutputBuilder == [events |-> <<>>, log |-> <<>>]
Log(output, line) == [output EXCEPT !.log = Append(@, line)]
Emit(output, event) == [output EXCEPT !.events = Append(@, event)]
WithResult(output, result) ==
    [ok |-> TRUE, err |-> NoError, result |-> Some(result),
     events |-> output.events, log |-> output.log]

\* TimeoutPacketResult { port_id, channel_id, seq, channel }
TimeoutPacketResult(port, chan, seq, end) ==
    [type |-> "Timeout", port_id |-> port, channel_id |-> chan, seq |-> seq,
     channel |-> end]

\* IbcEvent::TimeoutPacket(TimeoutPacket { height: Default::default(), packet })
TimeoutPacketEvent(packet) ==
    [type |-> "TimeoutPacket", height |-> 0, packet |-> packet]

\* ConsensusState::timestamp(): Some(t) for Ok(t), None for an error
timestamp(cs) == cs.timestamp

\* verify_next_sequence_recv / verify_packet_receipt_absence: the client of
\* the connection must exist and not be frozen, and the Merkle proof of the
\* message must verify; NoError when the verification passes
VerifyProof(ctx, client_id, packet, proofs) ==
    IF ~IsSome(client_state(ctx, client_id))
    THEN Kind("MissingClientState", <<client_id>>)
    ELSE IF Unwrap(client_state(ctx, client_id)).frozen
    THEN Kind("FrozenClient", <<client_id>>)
    ELSE IF ~proofs.verifies
    THEN Kind("PacketVerificationFailed", <<packet.sequence>>)
    ELSE NoError
verify_next_sequence_recv(ctx, client_id, packet, seq, proofs) ==
    VerifyProof(ctx, client_id, packet, proofs)
verify_packet_receipt_absence(ctx, client_id, packet, proofs) ==
    VerifyProof(ctx, client_id, packet, proofs)

(***************************************************************************)
(* timeout::process(ctx, msg).  msg = [packet, proofs, next_sequence_recv]; *)
(* every early return of the code is one THEN branch, in the code's order.  *)
(***************************************************************************)
\* lines 27-28: the channel end looked up is that of the packet's source
SourceChannelEnd_OfDefaultChannel(ctx, packet) ==
    channel_end(ctx, <<packet.source_port, "channel-0">>)
SourceChannelEnd(ctx, packet) ==
    channel_end(ctx, <<packet.source_port, packet.source_channel>>)

\* line 34: the source channel end must be Open
ChannelIsOpen_Unchecked(source_channel_end) == TRUE
ChannelIsOpen_NotClosed(source_channel_end) ==
    ~state_matches(source_channel_end, "Closed")
ChannelIsOpen(source_channel_end) == state_matches(source_channel_end, "Open")

\* lines 40-45: the channel's counterparty against the packet's destination
CounterpartyMatches_PortOnly(source_channel_end, packet) ==
    source_channel_end.counterparty.port_id = packet.destination_port
CounterpartyMatches(source_channel_end, packet) ==
    counterparty_matches(source_channel_end,
        Counterparty(packet.destination_port, Some(packet.destination_channel)))

\* line 54: the connection of a channel is its first hop, connection_hops()[0]
FirstHop_Last(source_channel_end) ==
    source_channel_end.connection_hops[Len(source_channel_end.connection_hops)]
FirstHop(source_channel_end) == source_channel_end.connection_hops[1]

\* lines 69-70: the consensus state consulted is the one at proofs.height
ProofConsensusState_AtTimeoutHeight(ctx, client_id, msg) ==
    client_consensus_state(ctx, client_id, msg.packet.timeout_height)
ProofConsensusState(ctx, client_id, msg) ==
    client_consensus_state(ctx, client_id, msg.proofs.height)

\* the timeout checks of lines 59-82, given the consensus state lookup
HeightNotReached_Swapped(packet, proof_height) ==
    (~IsZero(packet.timeout_height)) /\ packet.timeout_height < proof_height
HeightNotReached(packet, proof_height) ==
    (~IsZero(packet.timeout_height)) /\ packet.timeout_height > proof_height
TimestampNotReached(packet, proof_timestamp) ==
    packet.timeout_timestamp # 0 /\ packet.timeout_timestamp > proof_timestamp

\* lines 85-90: the commitment looked up is that of the packet's sequence
PacketCommitment_AtNextSequenceRecv(ctx, msg) ==
    get_packet_commitment(ctx,
        <<msg.packet.source_port, msg.packet.source_channel, msg.next_sequence_recv>>)
PacketCommitment(ctx, msg) ==
    get_packet_commitment(ctx,
        <<msg.packet.source_port, msg.packet.source_channel, msg.packet.sequence>>)

\* lines 84-100: the stored commitment against the recomputed hash
CommitmentMatches_Unchecked(packet_commitment, packet) == TRUE
CommitmentMatches(packet_commitment, packet) ==
    packet_commitment = Hash(CommitmentInput(packet))

\* line 103: on an Ordered channel the packet must not precede
\* next_sequence_recv
InvalidSequence_Inclusive(packet, next_sequence_recv) ==
    packet.sequence <= next_sequence_recv
InvalidSequence(packet, next_sequence_recv) ==
    packet.sequence < next_sequence_recv

\* lines 102-132: the result of the ordered and the unordered branch
OrderedResult_StaysOpen(source_channel_end, packet) ==
    TimeoutPacketResult(packet.source_port, packet.source_channel,
        packet.sequence, Some(source_channel_end))
OrderedResult_DestinationSide(source_channel_end, packet) ==
    TimeoutPacketResult(packet.destination_port, packet.destination_channel,
        packet.sequence,
        Some([source_channel_end EXCEPT !.state = "Closed"]))
OrderedResult_NoChannel(source_channel_end, packet) ==
    TimeoutPacketResult(packet.source_port, packet.source_channel,
        packet.sequence, None)
OrderedResult(source_channel_end, packet) ==
    TimeoutPacketResult(packet.source_port, packet.source_channel,
        packet.sequence,
        Some([source_channel_end EXCEPT !.state = "Closed"]))
UnorderedResult(packet) ==
    TimeoutPacketResult(packet.source_port, packet.source_channel,
        packet.sequence, None)

\* lines 134-141: log, emit, Ok(output.with_result(result))
Success_EmitsTwice(output, packet, result) ==
    WithResult(
        Emit(Emit(Log(output, "success: packet timeout "),
                  TimeoutPacketEvent(packet)),
             TimeoutPacketEvent(packet)),
        result)
Success(output, packet, result) ==
    WithResult(
        Emit(Log(output, "success: packet timeout "), TimeoutPacketEvent(packet)),
        result)

process(ctx, msg) ==
    LET output == OutputBuilder
        packet == msg.packet
        chan_opt == SourceChannelEnd(ctx, packet)
    IN
    IF ~IsSome(chan_opt)
    THEN Err(Kind("ChannelNotFound", <<packet.source_port, packet.source_channel>>))
    ELSE
    LET source_channel_end == Unwrap(chan_opt) IN
    IF ~ChannelIsOpen(source_channel_end)
    THEN Err(Kind("ChannelClosed", <<packet.source_channel>>))
    ELSE IF ~authenticated_capability(ctx, packet.source_port)
    THEN Err(Kind("NoPortCapability", <<packet.source_port>>))
    ELSE
    IF ~CounterpartyMatches(source_channel_end, packet)
    THEN Err(Kind("InvalidPacketCounterparty",
                  <<packet.destination_port, packet.destination_channel>>))
    ELSE
    LET conn_opt == connection_end(ctx, FirstHop(source_channel_end)) IN
    IF ~IsSome(conn_opt)
    THEN Err(Kind("MissingConnection", <<FirstHop(source_channel_end)>>))
    ELSE
    LET client_id == Unwrap(conn_opt).client_id
        proof_height == msg.proofs.height
    IN
    IF HeightNotReached(packet, proof_height)
    THEN Err(Kind("PacketTimeoutHeightNotReached",
                  <<packet.timeout_height, proof_height>>))
    ELSE
    LET cons_opt == ProofConsensusState(ctx, client_id, msg) IN
    IF ~IsSome(cons_opt)
    THEN Err(Kind("MissingClientConsensusState", <<client_id, proof_height>>))
    ELSE IF ~IsSome(timestamp(Unwrap(cons_opt)))
    THEN Err(Kind("ErrorInvalidConsensusState", <<>>))
    ELSE
    LET proof_timestamp == Unwrap(timestamp(Unwrap(cons_opt))) IN
    IF TimestampNotReached(packet, proof_timestamp)
    THEN Err(Kind("PacketTimeoutTimestampNotReached",
                  <<packet.timeout_timestamp, proof_timestamp>>))
    ELSE
    LET commit_opt == PacketCommitment(ctx, msg) IN
    IF ~IsSome(commit_opt)
    THEN Err(Kind("PacketCommitmentNotFound", <<packet.sequence>>))
    ELSE IF ~CommitmentMatches(Unwrap(commit_opt), packet)
    THEN Err(Kind("IncorrectPacketCommitment", <<packet.sequence>>))
    ELSE IF order_matches(source_channel_end, "Ordered")
    THEN
        IF InvalidSequence(packet, msg.next_sequence_recv)
        THEN Err(Kind("InvalidPacketSequence",
                      <<packet.sequence, msg.next_sequence_recv>>))
        ELSE
        LET v == verify_next_sequence_recv(ctx, client_id, packet,
                     msg.next_sequence_recv, msg.proofs)
        IN
        IF v # NoError
        THEN Err(v)
        ELSE Success(output, packet, OrderedResult(source_channel_end, packet))
    ELSE
        LET v == verify_packet_receipt_absence(ctx, client_id, packet, msg.proofs) IN
        IF v # NoError
        THEN Err(v)
        ELSE Success(output, packet, UnorderedResult(packet))

(***************************************************************************)
(* The store the handler reads, built as the unit test builds it:           *)
(* MockContext::default() followed by with_client, with_connection,         *)
(* with_port_capability, with_channel and with_packet_commitment.           *)
(***************************************************************************)
with_channel(ctx, port, chan, end) ==
    [ctx EXCEPT !.channels[<<port, chan>>] = Some(end)]
with_connection(ctx, conn, end) ==
    [ctx EXCEPT !.connections[conn] = Some(end)]
with_port_capability(ctx, port) ==
    [ctx EXCEPT !.caps = @ \cup {port}]
\* a client with one consensus state, at height h, whose timestamp() is t
with_client(ctx, client, h, t, frozen) ==
    [ctx EXCEPT !.clients[client] =
        Some([frozen |-> frozen,
              consensus |-> [x \in Heights |->
                  IF x = h THEN Some([timestamp |-> t]) ELSE None]])]
with_packet_commitment(ctx, port, chan, seq, data) ==
    [ctx EXCEPT !.commitments[<<port, chan, seq>>] = Some(data)]

\* the fixture of the unit test: the packet's two ends, its connection, client
SourcePort == "transfer"
SourceChannel == "channel-0"
DestinationPort == "transfer"
DestinationChannel == "channel-1"
TestConnection == "connection-0"
TestClient == "client-0"
\* a second connection, on a second client, for a channel with two hops
OtherConnection == "connection-1"
OtherClient == "client-1"

\* source_channel_end of the test, in a given state and ordering
TestChannelEnd(state, ordering) ==
    ChannelEnd(state, ordering,
        Counterparty(DestinationPort, Some(DestinationChannel)),
        <<TestConnection>>, "ics20")

\* with_packet_commitment for every sequence 1..n, each the hash of a packet
\* with the given timeouts and the test's data
RECURSIVE with_commitments(_, _, _, _)
with_commitments(ctx, n, ts, th) ==
    IF n = 0 THEN ctx
    ELSE with_packet_commitment(with_commitments(ctx, n - 1, ts, th),
            SourcePort, SourceChannel, n, Hash(<<ts, th, "d1">>))

\* what a test context leaves out or gets wrong: nothing, a builder call, or a
\* source channel end that is not Open
Setups == {"good", "no_channel", "no_capability", "no_connection", "no_client",
           "invalid_consensus", "frozen_client", "Init", "TryOpen", "Closed",
           "no_counterparty_channel", "first_hop_missing", "two_clients"}

\* the source channel end of a setup.  "no_counterparty_channel": the
\* counterparty's channel id is not known yet; "first_hop_missing" and
\* "two_clients": the channel has the hops <<OtherConnection, TestConnection>>
SetupChannelEnd(setup, ordering) ==
    LET end == TestChannelEnd(IF setup \in States THEN setup ELSE "Open", ordering)
    IN IF setup = "no_counterparty_channel"
       THEN [end EXCEPT !.counterparty = Counterparty(DestinationPort, None)]
       ELSE IF setup \in {"first_hop_missing", "two_clients"}
       THEN [end EXCEPT !.connection_hops = <<OtherConnection, TestConnection>>]
       ELSE end

TestContext(setup, ordering, hc, tc, n, ts, th) ==
    LET c0 == DefaultContext
        c1 == IF setup = "no_client" THEN c0
              ELSE IF setup = "two_clients"
              THEN with_client(with_client(c0, TestClient, 1, Some(tc), FALSE),
                       OtherClient, hc, Some(tc), FALSE)
              ELSE with_client(c0, TestClient, hc,
                       IF setup = "invalid_consensus" THEN None ELSE Some(tc),
                       setup = "frozen_client")
        c2 == IF setup = "no_connection" THEN c1
              ELSE IF setup = "two_clients"
              THEN with_connection(
                       with_connection(c1, TestConnection, ConnectionEnd(TestClient)),
                       OtherConnection, ConnectionEnd(OtherClient))
              ELSE with_connection(c1, TestConnection, ConnectionEnd(TestClient))
        c3 == IF setup = "no_capability" THEN c2
              ELSE with_port_capability(c2, SourcePort)
        c4 == IF setup = "no_channel" THEN c3
              ELSE with_channel(c3, SourcePort, SourceChannel,
                       SetupChannelEnd(setup, ordering))
    IN with_commitments(c4, n, ts, th)

\* the good setup with every client height, consensus timestamp and committed
\* packet; every other setup with the client at MaxHeight and MaxTime and the
\* committed packets timing out at MaxHeight
Contexts ==
    {TestContext("good", ordering, hc, tc, n, ts, th) :
        ordering \in Orders, hc \in 1..MaxHeight, tc \in Timestamps,
        n \in 0..MaxSeq, ts \in Timestamps, th \in Heights}
    \cup
    {TestContext(setup, ordering, MaxHeight, MaxTime, n, 0, MaxHeight) :
        setup \in Setups \ {"good"}, ordering \in Orders, n \in 0..MaxSeq}

(***************************************************************************)
(* Messages.  A MsgTimeout is the packet, the proofs (their height and      *)
(* whether the Merkle proof verifies) and next_sequence_recv.               *)
(***************************************************************************)
Packet(seq, sp, sc, dp, dc, data, th, ts) ==
    [sequence |-> seq, source_port |-> sp, source_channel |-> sc,
     destination_port |-> dp, destination_channel |-> dc, data |-> data,
     timeout_height |-> th, timeout_timestamp |-> ts]

MsgTimeout(packet, ph, verifies, nsr) ==
    [packet |-> packet, proofs |-> [height |-> ph, verifies |-> verifies],
     next_sequence_recv |-> nsr]

\* the ends, data and proof of a message: those of the test's packet, or one
\* of them changed
Shapes ==
    {<<SourcePort, SourceChannel, DestinationPort, DestinationChannel, "d1", TRUE>>,
     <<SourcePort, "channel-1", DestinationPort, DestinationChannel, "d1", TRUE>>,
     <<SourcePort, SourceChannel, "other", DestinationChannel, "d1", TRUE>>,
     <<SourcePort, SourceChannel, DestinationPort, "channel-0", "d1", TRUE>>,
     <<SourcePort, SourceChannel, DestinationPort, DestinationChannel, "d2", TRUE>>,
     <<SourcePort, SourceChannel, DestinationPort, DestinationChannel, "d1", FALSE>>}

Messages ==
    {MsgTimeout(Packet(seq, sh[1], sh[2], sh[3], sh[4], sh[5], th, ts),
                ph, sh[6], nsr) :
        sh \in Shapes, seq \in Sequences, th \in Heights, ts \in Timestamps,
        ph \in 1..MaxHeight, nsr \in Sequences}

(***************************************************************************)
(* State.                                                                   *)
(*   ctx       the ledger store (the reader the handler is given)           *)
(*   msg       the message being handled, if any                            *)
(*   out       what process returned for it, if it has run                  *)
(*   phase     "idle": no message; "returned": process has returned;        *)
(*             "persisted": the caller has applied the result to the store; *)
(*             "resubmitted": the same message was processed a second time  *)
(*   timedOut  history: the (port, channel, sequence) of every timeout      *)
(*             whose result was persisted                                   *)
(***************************************************************************)
VARIABLES ctx, msg, out, phase, timedOut
vars == <<ctx, msg, out, phase, timedOut>>

(***************************************************************************)
(* State of the event decoder (used by SpecEvents, at rest in Spec).        *)
(*   raw      the raw ledger event (tendermint::abci::Event) at hand        *)
(*   block    the height of the block that carries it                       *)
(*   sent     the typed event the raw event is the encoding of, if any      *)
(*   decoded  what the decoder returned for raw, once it has run            *)
(*   via      the decoder that ran: "try_from_tx" (channel events),         *)
(*            "from_tx_response_event", or the event type whose             *)
(*            TryFrom<RawObject> ran ("OpenInit", ...), or the accessor     *)
(*            that ran on ibc_event ("set_height", "height"); "none" before *)
(*   obj      the RawObject at hand                                         *)
(*   ibc_event  the IbcEvent whose height is set and read                   *)
(***************************************************************************)
VARIABLES raw, block, sent, decoded, via, obj, ibc_event
evars == <<raw, block, sent, decoded, via, obj, ibc_event>>

\* no event at hand
EventsIdle ==
    /\ obj = None
    /\ ibc_event = None
    /\ raw = None
    /\ block = 0
    /\ sent = None
    /\ decoded = None
    /\ via = "none"

(***************************************************************************)
(* State of the client state envelope (used by SpecClientState).            *)
(*   mocks      the build has the Mock variant (cfg(test) or feature mocks) *)
(*   any        the Any (type_url, value) at hand                           *)
(*   origin     the AnyClientState that `any` was converted from, if any    *)
(*   converted  what AnyClientState::try_from returned for `any`            *)
(***************************************************************************)
VARIABLES mocks, any, origin, converted
cvars == <<mocks, any, origin, converted>>

ClientStateIdle ==
    /\ mocks = TRUE
    /\ any = None
    /\ origin = None
    /\ converted = None

(***************************************************************************)
(* State of the relayer's start command (used by SpecStart).                *)
(*   cmd      the parsed StartCmd                                           *)
(*   config   the loaded configuration (app_config())                       *)
(*   pc       "start": run not yet called; "relaying": inside channel_relay *)
(*            or relay_on_new_link; "exited": Output::exit was called       *)
(*   handles  the chain ids whose runtime was spawned, in order             *)
(*   relays   the calls of channel_relay and relay_on_new_link made         *)
(*   outputs  the Output values the command ended with                      *)
(*   spawns   the calls of spawn_chain_runtime made, in order, each with    *)
(*            its chain id and whether it returned a handle                 *)
(***************************************************************************)
VARIABLES cmd, config, pc, handles, relays, outputs, spawns
svars == <<cmd, config, pc, handles, relays, outputs, spawns>>

StartIdle ==
    /\ cmd = None
    /\ config = None
    /\ pc = "none"
    /\ spawns = <<>>
    /\ handles = <<>>
    /\ relays = <<>>
    /\ outputs = <<>>

Init ==
    /\ ctx \in Contexts
    /\ msg = None
    /\ out = None
    /\ phase = "idle"
    /\ timedOut = {}
    /\ EventsIdle
    /\ ClientStateIdle
    /\ StartIdle

\* the caller applies a PacketResult::Timeout: the commitment is erased and
\* the returned channel end, if any, is stored
store_packet_result(c, res) ==
    LET erased == [c EXCEPT
            !.commitments[<<res.port_id, res.channel_id, res.seq>>] = None]
    IN IF IsSome(res.channel)
       THEN [erased EXCEPT
                !.channels[<<res.port_id, res.channel_id>>] = res.channel]
       ELSE erased

\* one call of process(ctx, m): ctx is a shared reference (&dyn ChannelReader),
\* source_channel_end an owned copy; the store is read and the output returned
Handle_WritesStore(m) ==
    LET o == process(ctx, m) IN
    /\ out' = Some(o)
    /\ ctx' = IF o.ok /\ IsSome(Unwrap(o.result).channel)
              THEN [ctx EXCEPT
                       !.channels[<<m.packet.source_port, m.packet.source_channel>>]
                           = Unwrap(o.result).channel]
              ELSE ctx
Handle(m) ==
    /\ out' = Some(process(ctx, m))
    /\ UNCHANGED ctx

\* a message arrives and the handler runs on the store
Process(m) ==
    /\ phase = "idle"
    /\ msg' = Some(m)
    /\ Handle(m)
    /\ phase' = "returned"
    /\ UNCHANGED timedOut
    /\ UNCHANGED <<evars, cvars, svars>>

\* the caller persists a successful result
Persist ==
    /\ phase \in {"returned", "resubmitted"}
    /\ Unwrap(out).ok
    /\ LET res == Unwrap(Unwrap(out).result) IN
        /\ ctx' = store_packet_result(ctx, res)
        /\ timedOut' = timedOut \cup {<<res.port_id, res.channel_id, res.seq>>}
    /\ phase' = "persisted"
    /\ UNCHANGED <<msg, out>>
    /\ UNCHANGED <<evars, cvars, svars>>

\* the same message is submitted again after its result was persisted
Resubmit ==
    /\ phase = "persisted"
    /\ Handle(Unwrap(msg))
    /\ phase' = "resubmitted"
    /\ UNCHANGED <<msg, timedOut>>
    /\ UNCHANGED <<evars, cvars, svars>>

\* the caller is done with the message (an error is surfaced, nothing stored)
Done ==
    /\ phase \in {"returned", "persisted", "resubmitted"}
    /\ msg' = None
    /\ out' = None
    /\ phase' = "idle"
    /\ UNCHANGED <<ctx, timedOut>>
    /\ UNCHANGED <<evars, cvars, svars>>

\* a message arrives when the caller is idle
Receive ==
    /\ phase = "idle"
    /\ \E m \in Messages : Process(m)

Next ==
    \/ Receive
    \/ Persist
    \/ Resubmit
    \/ Done

Spec == Init /\ [][Next]_vars

(***************************************************************************)
(* Properties of the timeout handler.  In the phases "returned" and         *)
(* "resubmitted" out is what process returned for msg on the store ctx.     *)
(***************************************************************************)
Returned == phase \in {"returned", "resubmitted"}
CurMsg == Unwrap(msg)
CurPacket == CurMsg.packet
CurOut == Unwrap(out)
SourceKey == <<CurPacket.source_port, CurPacket.source_channel>>
SourceEndStored == IsSome(ctx.channels[SourceKey])
SourceEnd == Unwrap(ctx.channels[SourceKey])
\* the consensus state of the source channel's client at proofs.height
ProofConsensus ==
    LET conn == ctx.connections[SourceEnd.connection_hops[1]] IN
    IF SourceEndStored /\ IsSome(conn)
    THEN client_consensus_state(ctx, Unwrap(conn).client_id, CurMsg.proofs.height)
    ELSE None
ProofConsensusTimeKnown ==
    IsSome(ProofConsensus) /\ IsSome(Unwrap(ProofConsensus).timestamp)
ProofConsensusTime == Unwrap(Unwrap(ProofConsensus).timestamp)

\* the timeout height of the packet is set and has passed at proofs.height
HeightElapsed ==
    CurPacket.timeout_height # 0 /\ CurPacket.timeout_height <= CurMsg.proofs.height
\* the timeout timestamp of the packet is set and has passed at the consensus
\* state of proofs.height
TimestampElapsed ==
    /\ CurPacket.timeout_timestamp # 0
    /\ ProofConsensusTimeKnown
    /\ CurPacket.timeout_timestamp <= ProofConsensusTime

\* C1: process returns success only if the packet's timeout height is non-zero
\* and at most proofs.height, or its timeout timestamp is non-zero and at most
\* the timestamp of the consensus state stored at proofs.height; it never
\* succeeds for a packet with both timeouts zero.
C1_SuccessOnlyIfTimeoutElapsed ==
    (Returned /\ CurOut.ok) => (HeightElapsed \/ TimestampElapsed)

\* every check of process other than the timeout condition passes
OtherChecksPass ==
    /\ SourceEndStored
    /\ SourceEnd.state = "Open"
    /\ CurPacket.source_port \in ctx.caps
    /\ SourceEnd.counterparty =
           [port_id |-> CurPacket.destination_port,
            channel_id |-> Some(CurPacket.destination_channel)]
    /\ ProofConsensusTimeKnown
    /\ ctx.commitments[<<CurPacket.source_port, CurPacket.source_channel,
                         CurPacket.sequence>>]
         = Some(Hash(<<CurPacket.timeout_timestamp, CurPacket.timeout_height,
                       CurPacket.data>>))
    /\ (SourceEnd.ordering = "Ordered"
            => CurPacket.sequence >= CurMsg.next_sequence_recv)
    /\ ~Unwrap(ctx.clients[Unwrap(ctx.connections[SourceEnd.connection_hops[1]]).client_id]).frozen
    /\ CurMsg.proofs.verifies

\* C2: when every other check passes, one of the two timeout conditions is
\* enough for process to succeed, even if the other timeout is set and has not
\* been reached.
C2_OneTimeoutConditionSuffices ==
    (Returned /\ OtherChecksPass /\ (HeightElapsed \/ TimestampElapsed))
        => CurOut.ok

NoOutputOnError ==
    CurOut.result = None /\ CurOut.events = <<>> /\ CurOut.log = <<>>
ErrorIs(kind, args) ==
    /\ ~CurOut.ok
    /\ CurOut.err.kind = kind
    /\ CurOut.err.args = args

\* C3 as stated: for any channel ordering, processing the same MsgTimeout again
\* after its result was persisted is rejected with PacketCommitmentNotFound and
\* produces no result and no events.
C3_ResubmitCommitmentNotFound ==
    phase = "resubmitted" =>
        (ErrorIs("PacketCommitmentNotFound", <<CurPacket.sequence>>)
            /\ NoOutputOnError)

\* C3 amended: processing the same MsgTimeout again after its result was
\* persisted is rejected and produces no result, no events and no log; the
\* error is PacketCommitmentNotFound(sequence) on an Unordered channel and
\* ChannelClosed(source_channel) on an Ordered channel, which the persisted
\* result has closed.
C3_ResubmitRejected ==
    phase = "resubmitted" =>
        /\ NoOutputOnError
        /\ SourceEnd.ordering = "Unordered"
              => ErrorIs("PacketCommitmentNotFound", <<CurPacket.sequence>>)
        /\ SourceEnd.ordering = "Ordered"
              => ErrorIs("ChannelClosed", <<CurPacket.source_channel>>)

\* an Unordered timeout was persisted and submitted again
C3_Witness ==
    /\ phase = "resubmitted"
    /\ <<CurPacket.source_port, CurPacket.source_channel, CurPacket.sequence>>
           \in timedOut
    /\ SourceEnd.ordering = "Unordered"
    /\ CurOut.err.kind = "PacketCommitmentNotFound"

\* C4: on an Ordered channel every successful process has packet.sequence >=
\* next_sequence_recv and returns PacketResult::Timeout whose channel is
\* Some(channel end) in state Closed.
C4_OrderedTimeoutClosesChannel ==
    (Returned /\ CurOut.ok /\ SourceEnd.ordering = "Ordered") =>
        LET res == Unwrap(CurOut.result) IN
        /\ CurPacket.sequence >= CurMsg.next_sequence_recv
        /\ res.type = "Timeout"
        /\ IsSome(res.channel)
        /\ Unwrap(res.channel).state = "Closed"

\* a timeout succeeded on an Ordered channel, ahead of next_sequence_recv
C4_Witness ==
    /\ phase = "returned"
    /\ CurOut.ok
    /\ SourceEnd.ordering = "Ordered"
    /\ CurPacket.sequence > CurMsg.next_sequence_recv

StoredCommitment ==
    ctx.commitments[<<CurPacket.source_port, CurPacket.source_channel,
                      CurPacket.sequence>>]
RecomputedCommitment ==
    Hash(<<CurPacket.timeout_timestamp, CurPacket.timeout_height, CurPacket.data>>)
\* the checks of process that precede the commitment lookup all pass
ReachesCommitmentCheck ==
    /\ SourceEndStored
    /\ SourceEnd.state = "Open"
    /\ CurPacket.source_port \in ctx.caps
    /\ SourceEnd.counterparty =
           [port_id |-> CurPacket.destination_port,
            channel_id |-> Some(CurPacket.destination_channel)]
    /\ ProofConsensusTimeKnown
    /\ ~(CurPacket.timeout_height # 0
            /\ CurPacket.timeout_height > CurMsg.proofs.height)
    /\ ~(CurPacket.timeout_timestamp # 0
            /\ CurPacket.timeout_timestamp > ProofConsensusTime)

\* C5: process succeeds only when the commitment stored under (source_port,
\* source_channel, sequence) equals the reader's hash of the submitted packet's
\* (timeout_timestamp, timeout_height, data); when the handler reaches the
\* commitment check and a commitment is stored but differs, the result is
\* IncorrectPacketCommitment(sequence).
C5_CommitmentMatch ==
    /\ (Returned /\ CurOut.ok) => StoredCommitment = Some(RecomputedCommitment)
    /\ (Returned /\ ReachesCommitmentCheck /\ IsSome(StoredCommitment)
            /\ StoredCommitment # Some(RecomputedCommitment))
          => ErrorIs("IncorrectPacketCommitment", <<CurPacket.sequence>>)

\* a timeout whose packet differs from the committed one has been rejected
C5_Witness ==
    /\ phase = "returned"
    /\ IsSome(StoredCommitment)
    /\ StoredCommitment # Some(RecomputedCommitment)
    /\ CurOut.err.kind = "IncorrectPacketCommitment"

IsClosed(c, k) == IsSome(c.channels[k]) /\ Unwrap(c.channels[k]).state = "Closed"
IsOpen(c, k) == IsSome(c.channels[k]) /\ Unwrap(c.channels[k]).state = "Open"
\* the step is a call of process
ProcessStep == phase' \in {"returned", "resubmitted"} /\ phase' # phase

\* C6: Closed is terminal under timeout processing: no step moves a channel
\* end out of Closed, or from Open to a state other than Open or Closed, and a
\* process on a channel whose stored end is Closed does not succeed.
C6_ClosedIsTerminal ==
    [][/\ \A k \in ChanKeys : IsClosed(ctx, k) => IsClosed(ctx', k)
       /\ \A k \in ChanKeys : IsOpen(ctx, k) => (IsOpen(ctx', k) \/ IsClosed(ctx', k))
       /\ (ProcessStep
             /\ IsClosed(ctx, <<Unwrap(msg').packet.source_port,
                                Unwrap(msg').packet.source_channel>>))
            => ~Unwrap(out').ok
      ]_vars

\* after a persisted timeout closed the channel, a timeout of another packet
\* whose commitment is still stored was processed on it
C6_Witness ==
    /\ phase = "returned"
    /\ timedOut # {}
    /\ SourceEndStored
    /\ SourceEnd.state = "Closed"
    /\ <<CurPacket.source_port, CurPacket.source_channel, CurPacket.sequence>>
           \notin timedOut
    /\ StoredCommitment = Some(RecomputedCommitment)
    /\ ~CurOut.ok

\* C8: process never writes to the ledger store: over a call of process, on
\* success and on every error, channel ends, connections, clients and their
\* consensus states, packet commitments and capabilities are unchanged; when an
\* Ordered timeout succeeds the stored end is still Open and the Closed end is
\* in the returned result only.
C8_ProcessLeavesStoreUnchanged ==
    [][ProcessStep =>
        /\ ctx' = ctx
        /\ (Unwrap(out').ok /\ IsSome(Unwrap(Unwrap(out').result).channel))
              => /\ IsOpen(ctx', <<Unwrap(msg').packet.source_port,
                                   Unwrap(msg').packet.source_channel>>)
                 /\ Unwrap(Unwrap(Unwrap(out').result).channel).state = "Closed"
      ]_vars

\* process has returned a closed channel end for a channel stored as Open
C8_Witness ==
    /\ phase = "returned"
    /\ CurOut.ok
    /\ IsSome(Unwrap(CurOut.result).channel)
    /\ Unwrap(Unwrap(CurOut.result).channel).state = "Closed"
    /\ SourceEnd.state = "Open"

\* C9: on an Unordered channel a successful process returns
\* PacketResult::Timeout with port_id = packet.source_port, channel_id =
\* packet.source_channel, seq = packet.sequence and channel = None, emits exactly
\* one event, a TimeoutPacket carrying the submitted packet, and logs the
\* line "success: packet timeout ".
C9_UnorderedTimeoutResult ==
    (Returned /\ CurOut.ok /\ SourceEnd.ordering = "Unordered") =>
        LET res == Unwrap(CurOut.result) IN
        /\ res.type = "Timeout"
        /\ res.port_id = CurPacket.source_port
        /\ res.channel_id = CurPacket.source_channel
        /\ res.seq = CurPacket.sequence
        /\ res.channel = None
        /\ Len(CurOut.events) = 1
        /\ CurOut.events[1].type = "TimeoutPacket"
        /\ CurOut.events[1].packet = CurPacket
        /\ \E i \in 1..Len(CurOut.log) : CurOut.log[i] = "success: packet timeout "

\* a timeout succeeded on an Unordered channel
C9_Witness ==
    /\ phase = "returned"
    /\ CurOut.ok
    /\ SourceEnd.ordering = "Unordered"
    /\ CurPacket.timeout_height # 0

\* the channel, capability, counterparty and connection checks pass
ReachesTimeoutCheck ==
    /\ SourceEndStored
    /\ SourceEnd.state = "Open"
    /\ CurPacket.source_port \in ctx.caps
    /\ SourceEnd.counterparty =
           [port_id |-> CurPacket.destination_port,
            channel_id |-> Some(CurPacket.destination_channel)]
    /\ IsSome(ctx.connections[SourceEnd.connection_hops[1]])

\* C10: when the channel, capability, counterparty and connection checks pass
\* and packet.timeout_height is non-zero and greater than proofs.height,
\* process fails with PacketTimeoutHeightNotReached(timeout_height,
\* proofs.height) and emits no events.
C10_TimeoutBeforeDeadlineFails ==
    (Returned /\ ReachesTimeoutCheck
        /\ CurPacket.timeout_height # 0
        /\ CurPacket.timeout_height > CurMsg.proofs.height)
      => /\ ErrorIs("PacketTimeoutHeightNotReached",
                    <<CurPacket.timeout_height, CurMsg.proofs.height>>)
         /\ CurOut.events = <<>>

\* a timeout was submitted before its height, with the consensus state of
\* proofs.height stored and the packet committed
C10_Witness ==
    /\ phase = "returned"
    /\ ReachesTimeoutCheck
    /\ CurPacket.timeout_height > CurMsg.proofs.height
    /\ ProofConsensusTimeKnown
    /\ StoredCommitment = Some(RecomputedCommitment)
    /\ CurOut.err.kind = "PacketTimeoutHeightNotReached"

\* the client of the source channel's first hop
FirstHopClient == Unwrap(ctx.connections[SourceEnd.connection_hops[1]]).client_id
\* the store holds no consensus state of that client at proofs.height
NoConsensusAtProofHeight ==
    \/ ctx.clients[FirstHopClient] = None
    \/ Unwrap(ctx.clients[FirstHopClient]).consensus[CurMsg.proofs.height] = None

\* C11 as stated: when the channel, capability, counterparty and connection
\* checks pass and the reader has no consensus state of the connection's client
\* at proofs.height, process fails with MissingClientConsensusState(client_id,
\* proofs.height), whatever the packet's timeout_height and timeout_timestamp.
C11_MissingConsensusWhateverTimeouts ==
    (Returned /\ ReachesTimeoutCheck /\ NoConsensusAtProofHeight)
      => ErrorIs("MissingClientConsensusState",
                 <<FirstHopClient, CurMsg.proofs.height>>)

\* C11 amended: when the channel, capability, counterparty and connection
\* checks pass and the reader has no consensus state of the connection's client
\* at proofs.height, process fails with MissingClientConsensusState(client_id,
\* proofs.height) whatever the packet's timeout_timestamp, provided its
\* timeout_height is zero or at most proofs.height; with a timeout_height above
\* proofs.height the height check, which precedes the lookup, fails first with
\* PacketTimeoutHeightNotReached(timeout_height, proofs.height).
C11_MissingConsensusAfterHeightCheck ==
    (Returned /\ ReachesTimeoutCheck /\ NoConsensusAtProofHeight) =>
        IF CurPacket.timeout_height # 0
              /\ CurPacket.timeout_height > CurMsg.proofs.height
        THEN ErrorIs("PacketTimeoutHeightNotReached",
                     <<CurPacket.timeout_height, CurMsg.proofs.height>>)
        ELSE ErrorIs("MissingClientConsensusState",
                     <<FirstHopClient, CurMsg.proofs.height>>)

\* a timeout with a timestamp set was submitted with proofs at a height for
\* which the client, which exists, has no consensus state
C11_Witness ==
    /\ phase = "returned"
    /\ ReachesTimeoutCheck
    /\ ctx.clients[FirstHopClient] # None
    /\ NoConsensusAtProofHeight
    /\ CurPacket.timeout_timestamp # 0
    /\ CurPacket.timeout_height # 0
    /\ CurOut.err.kind = "MissingClientConsensusState"

\* C12: if the reader has no channel end for (packet.source_port,
\* packet.source_channel), process fails with ChannelNotFound(source_port,
\* source_channel), whatever the rest of the message and of the reader.
C12_ChannelNotFound ==
    (Returned /\ ~SourceEndStored)
      => ErrorIs("ChannelNotFound",
                 <<CurPacket.source_port, CurPacket.source_channel>>)

\* a timeout named a channel the reader does not hold, while the reader holds
\* another channel of the port, its capability and the packet's commitment
C12_Witness ==
    /\ phase = "returned"
    /\ ~SourceEndStored
    /\ \E k \in ChanKeys : k[1] = CurPacket.source_port /\ IsSome(ctx.channels[k])
    /\ CurPacket.source_port \in ctx.caps
    /\ CurOut.err.kind = "ChannelNotFound"

\* C13: if the source channel end exists and its state is not Open (Init,
\* TryOpen or Closed), process fails with ChannelClosed(source_channel),
\* before every later check: also when the capability or the commitment is
\* absent or the timeout has not elapsed.
C13_ChannelNotOpen ==
    (Returned /\ SourceEndStored /\ SourceEnd.state # "Open")
      => ErrorIs("ChannelClosed", <<CurPacket.source_channel>>)

\* a timeout that has not elapsed, for a packet with no commitment, was
\* rejected on a channel still in its handshake
C13_Witness ==
    /\ phase = "returned"
    /\ SourceEndStored
    /\ SourceEnd.state \in {"Init", "TryOpen"}
    /\ StoredCommitment = None
    /\ CurPacket.timeout_height > CurMsg.proofs.height
    /\ CurOut.err.kind = "ChannelClosed"

\* C14: on an Ordered channel, when every check up to and including the
\* commitment match passes and packet.sequence < next_sequence_recv, process
\* fails with InvalidPacketSequence(sequence, next_sequence_recv) and returns
\* no channel end; packet.sequence = next_sequence_recv passes the sequence
\* check, and succeeds when the proof verifies.
C14_OrderedSequenceCheck ==
    (Returned /\ ReachesCommitmentCheck
        /\ StoredCommitment = Some(RecomputedCommitment)
        /\ SourceEnd.ordering = "Ordered") =>
        /\ CurPacket.sequence < CurMsg.next_sequence_recv
             => /\ ErrorIs("InvalidPacketSequence",
                           <<CurPacket.sequence, CurMsg.next_sequence_recv>>)
                /\ CurOut.result = None
        /\ CurPacket.sequence = CurMsg.next_sequence_recv
             => /\ CurOut.err.kind # "InvalidPacketSequence"
                /\ (CurMsg.proofs.verifies
                      /\ ~Unwrap(ctx.clients[FirstHopClient]).frozen)
                     => CurOut.ok

\* an Ordered timeout of a committed packet behind next_sequence_recv was
\* rejected
C14_Witness ==
    /\ phase = "returned"
    /\ ReachesCommitmentCheck
    /\ StoredCommitment = Some(RecomputedCommitment)
    /\ SourceEnd.ordering = "Ordered"
    /\ CurPacket.sequence < CurMsg.next_sequence_recv
    /\ CurMsg.proofs.verifies
    /\ CurOut.err.kind = "InvalidPacketSequence"

\* C15: when every check before the commitment lookup passes and no commitment
\* is stored under (source_port, source_channel, sequence), process fails with
\* PacketCommitmentNotFound(sequence) on an Ordered and on an Unordered channel,
\* before the sequence check and the proof verification.
C15_CommitmentNotFound ==
    (Returned /\ ReachesCommitmentCheck /\ StoredCommitment = None)
      => ErrorIs("PacketCommitmentNotFound", <<CurPacket.sequence>>)

\* an Ordered timeout behind next_sequence_recv, for a sequence with no
\* commitment, was rejected for the missing commitment
C15_Witness ==
    /\ phase = "returned"
    /\ ReachesCommitmentCheck
    /\ StoredCommitment = None
    /\ SourceEnd.ordering = "Ordered"
    /\ CurPacket.sequence < CurMsg.next_sequence_recv
    /\ CurOut.err.kind = "PacketCommitmentNotFound"

\* the packet is addressed to the counterparty of the source channel
AddressedToCounterparty ==
    SourceEnd.counterparty =
        [port_id |-> CurPacket.destination_port,
         channel_id |-> Some(CurPacket.destination_channel)]

\* C16: when the source channel is Open and the port capability is held (the
\* checks that precede the counterparty check) and the channel's counterparty
\* is not exactly (packet.destination_port, Some(packet.destination_channel)),
\* process fails with InvalidPacketCounterparty(destination_port,
\* destination_channel); no timeout succeeds for a packet addressed to another
\* (port, channel) than the channel's counterparty.
C16_CounterpartyMismatch ==
    /\ (Returned /\ SourceEndStored /\ SourceEnd.state = "Open"
            /\ CurPacket.source_port \in ctx.caps
            /\ ~AddressedToCounterparty)
          => ErrorIs("InvalidPacketCounterparty",
                     <<CurPacket.destination_port, CurPacket.destination_channel>>)
    /\ (Returned /\ CurOut.ok) => AddressedToCounterparty

\* a timeout whose packet names the counterparty's port and another channel of
\* it was rejected although its timeout elapsed and its commitment is stored
C16_Witness ==
    /\ phase = "returned"
    /\ SourceEndStored
    /\ SourceEnd.state = "Open"
    /\ SourceEnd.counterparty.port_id = CurPacket.destination_port
    /\ SourceEnd.counterparty.channel_id # Some(CurPacket.destination_channel)
    /\ StoredCommitment = Some(RecomputedCommitment)
    /\ HeightElapsed
    /\ CurOut.err.kind = "InvalidPacketCounterparty"

\* C17: process resolves the connection by the first entry of the source
\* channel's connection_hops: when the checks before it pass and the reader has
\* no connection end under the first hop, it fails with MissingConnection(first
\* hop), whatever the other hops; the consensus state it consults is that of
\* the client_id of the first hop's connection end: a missing consensus state is
\* reported for that client, and no timeout succeeds without a consensus state
\* of that client at proofs.height.
C17_FirstHopConnection ==
    /\ (Returned /\ SourceEndStored /\ SourceEnd.state = "Open"
            /\ CurPacket.source_port \in ctx.caps /\ AddressedToCounterparty
            /\ ctx.connections[SourceEnd.connection_hops[1]] = None)
          => ErrorIs("MissingConnection", <<SourceEnd.connection_hops[1]>>)
    /\ (Returned /\ ~CurOut.ok /\ CurOut.err.kind = "MissingClientConsensusState")
          => CurOut.err.args = <<FirstHopClient, CurMsg.proofs.height>>
    /\ (Returned /\ CurOut.ok) => ~NoConsensusAtProofHeight

\* a timeout succeeded on a channel with two hops whose connections are on
\* different clients, of which only the first hop's has a consensus state at
\* proofs.height
C17_Witness ==
    /\ phase = "returned"
    /\ CurOut.ok
    /\ Len(SourceEnd.connection_hops) = 2
    /\ LET other == Unwrap(ctx.connections[SourceEnd.connection_hops[2]]).client_id
       IN /\ other # FirstHopClient
          /\ Unwrap(ctx.clients[other]).consensus[CurMsg.proofs.height] = None

\* C29: a process that fails returns the error alone: no PacketResult, no
\* event and no log line, on every error path, those after the ordering
\* branch included; and a process that succeeds returns its result together
\* with the one TimeoutPacket event and the log line.
C29_ErrorCarriesNoOutput ==
    Returned =>
        /\ CurOut.ok <=> CurOut.result # None
        /\ ~CurOut.ok =>
              /\ CurOut.err # NoError
              /\ CurOut.result = None
              /\ CurOut.events = <<>>
              /\ CurOut.log = <<>>
        /\ CurOut.ok =>
              /\ CurOut.err = NoError
              /\ CurOut.events = <<TimeoutPacketEvent(CurPacket)>>
              /\ CurOut.log = <<"success: packet timeout ">>

\* a timeout on an Ordered channel failed in verify_next_sequence_recv, after
\* the sequence check
C29_Witness ==
    /\ phase = "returned"
    /\ SourceEndStored
    /\ SourceEnd.ordering = "Ordered"
    /\ CurPacket.sequence >= CurMsg.next_sequence_recv
    /\ ~CurOut.ok
    /\ CurOut.err.kind = "PacketVerificationFailed"
    /\ CurOut.events = <<>>

\* C30: the channel end in the result of a successful timeout on an Ordered
\* channel is the stored source channel end (which is Open) with the same
\* ordering, counterparty, connection_hops and version and the state Closed,
\* and the result names the packet's source_port, source_channel and sequence.
C30_OrderedResultIsStoredEndClosed ==
    (phase = "returned" /\ CurOut.ok /\ SourceEnd.ordering = "Ordered") =>
        LET res == Unwrap(CurOut.result)
            end == Unwrap(res.channel)
        IN /\ SourceEnd.state = "Open"
           /\ end.state = "Closed"
           /\ end.ordering = SourceEnd.ordering
           /\ end.counterparty = SourceEnd.counterparty
           /\ end.connection_hops = SourceEnd.connection_hops
           /\ end.version = SourceEnd.version
           /\ DOMAIN end = DOMAIN SourceEnd
           /\ res.port_id = CurPacket.source_port
           /\ res.channel_id = CurPacket.source_channel
           /\ res.seq = CurPacket.sequence

\* an Ordered timeout succeeded for a packet whose destination channel is
\* not its source channel
C30_Witness ==
    /\ phase = "returned"
    /\ CurOut.ok
    /\ SourceEnd.ordering = "Ordered"
    /\ CurPacket.destination_channel # CurPacket.source_channel
    /\ Unwrap(CurOut.result).channel_id = CurPacket.source_channel
    /\ Unwrap(Unwrap(CurOut.result).channel).counterparty.channel_id
           = Some(CurPacket.destination_channel)

(***************************************************************************)
(* Decoding of ledger events.  A raw event (tendermint::abci::Event) is a   *)
(* type string and a list of tags (key, value), all strings.                *)
(***************************************************************************)
Tag(key, value) == [key |-> key, value |-> value]
AbciEvent(type_str, attributes) ==
    [type_str |-> type_str, attributes |-> attributes]

\* a call returns a value or aborts (unwrap of an error, assert!, unimplemented!)
Returns(v) == [panic |-> FALSE, value |-> <<v>>]
Panics == [panic |-> TRUE, value |-> <<>>]
Value(r) == r.value[1]

\* Channel event types
OPEN_INIT_EVENT_TYPE == "channel_open_init"
OPEN_TRY_EVENT_TYPE == "channel_open_try"
OPEN_ACK_EVENT_TYPE == "channel_open_ack"
OPEN_CONFIRM_EVENT_TYPE == "channel_open_confirm"
CLOSE_INIT_EVENT_TYPE == "channel_close_init"
CLOSE_CONFIRM_EVENT_TYPE == "channel_close_confirm"

\* Channel event attribute keys
CONNECTION_ID_ATTRIBUTE_KEY == "connection_id"
CHANNEL_ID_ATTRIBUTE_KEY == "channel_id"
PORT_ID_ATTRIBUTE_KEY == "port_id"
COUNTERPARTY_CHANNEL_ID_ATTRIBUTE_KEY == "counterparty_channel_id"
COUNTERPARTY_PORT_ID_ATTRIBUTE_KEY == "counterparty_port_id"

\* Packet event types
SEND_PACKET == "send_packet"
WRITE_ACK == "write_acknowledgement"
ACK_PACKET == "acknowledge_packet"
TIMEOUT == "timeout_packet"

\* Packet event attribute keys
PKT_SEQ_ATTRIBUTE_KEY == "packet_sequence"
PKT_DATA_ATTRIBUTE_KEY == "packet_data"
PKT_SRC_PORT_ATTRIBUTE_KEY == "packet_src_port"
PKT_SRC_CHANNEL_ATTRIBUTE_KEY == "packet_src_channel"
PKT_DST_PORT_ATTRIBUTE_KEY == "packet_dst_port"
PKT_DST_CHANNEL_ATTRIBUTE_KEY == "packet_dst_channel"
PKT_TIMEOUT_HEIGHT_ATTRIBUTE_KEY == "packet_timeout_height"
PKT_ACK_ATTRIBUTE_KEY == "packet_ack"
\* the key of the seventh packet field, which the tx decoder does not read
PKT_TIMEOUT_TIMESTAMP_ATTRIBUTE_KEY == "packet_timeout_timestamp"

\* the type strings of the client and connection decoders
ClientEventKinds ==
    [create_client |-> "CreateClient", update_client |-> "UpdateClient",
     client_misbehaviour |-> "ClientMisbehaviour"]
ConnectionEventKinds ==
    [connection_open_init |-> "OpenInitConnection",
     connection_open_try |-> "OpenTryConnection",
     connection_open_ack |-> "OpenAckConnection",
     connection_open_confirm |-> "OpenConfirmConnection"]

\* the IbcEvent variants, by where their height is kept
HandshakeKinds ==
    {"OpenInitChannel", "OpenTryChannel", "OpenAckChannel", "OpenConfirmChannel",
     "CloseInitChannel", "CloseConfirmChannel"}
PacketKinds ==
    {"SendPacket", "ReceivePacket", "WriteAcknowledgement", "AcknowledgePacket",
     "TimeoutPacket"}

\* Default::default() of the identifiers, the height and the packet data
DefaultPortId == "defaultPort"
DefaultChannelId == "defaultChannel"
DefaultConnectionId == "defaultConnection"
DefaultHeight == 0
EmptyData == ""

\* str::parse of an identifier: Some(id) for Ok(id), None for a validation error
parse_port_id(value) ==
    IF value \in PortIds \cup {DefaultPortId} THEN Some(value) ELSE None
parse_channel_id(value) ==
    IF value \in ChannelIds \cup {DefaultChannelId} THEN Some(value) ELSE None
parse_connection_id(value) ==
    IF value \in ConnectionIds \cup {DefaultConnectionId} THEN Some(value) ELSE None

\* u64 as a decimal string and back: Some(n) for Ok(n), None for a ParseIntError
U64s == 0..(IF MaxSeq > MaxTime THEN MaxSeq ELSE MaxTime)
u64_to_string(n) == ToString(n)
parse_u64(value) ==
    LET ns == {n \in U64s : u64_to_string(n) = value}
    IN IF ns = {} THEN None ELSE Some(CHOOSE n \in ns : TRUE)

\* Height as "<revision>-<height>" (revision 0) and back
height_to_string(h) == "0-" \o ToString(h)
parse_height(value) ==
    LET hs == {h \in Heights : height_to_string(h) = value}
    IN IF hs = {} THEN None ELSE Some(CHOOSE h \in hs : TRUE)

\* Vec::from(value.as_bytes()): the bytes of a string, written as the string
as_bytes(value) == value

\* Attributes::default() and Packet::default()
DefaultAttributes ==
    [height |-> DefaultHeight, port_id |-> DefaultPortId, channel_id |-> None,
     connection_id |-> DefaultConnectionId,
     counterparty_port_id |-> DefaultPortId, counterparty_channel_id |-> None]
DefaultPacket ==
    Packet(0, DefaultPortId, DefaultChannelId, DefaultPortId, DefaultChannelId,
           EmptyData, DefaultHeight, 0)

\* `attr.f = value.parse().unwrap()`: the field is set, or the call aborts
SetAttribute(acc, field, parsed) ==
    IF parsed = None THEN [acc EXCEPT !.panic = TRUE]
    ELSE [acc EXCEPT !.attr[field] = Unwrap(parsed)]

\* the `_ => {}` arm of both loops: a tag with any other key changes nothing
UnknownAttribute_Aborts(acc, tag) == [acc EXCEPT !.panic = TRUE]
UnknownAttribute(acc, tag) == acc

\* one iteration of the loop of extract_attributes_from_tx (lines 107-122)
AttributeTag(acc, tag) ==
    CASE tag.key = PORT_ID_ATTRIBUTE_KEY ->
            SetAttribute(acc, "port_id", parse_port_id(tag.value))
      [] tag.key = CHANNEL_ID_ATTRIBUTE_KEY ->
            [acc EXCEPT !.attr.channel_id = parse_channel_id(tag.value)]
      [] tag.key = CONNECTION_ID_ATTRIBUTE_KEY ->
            SetAttribute(acc, "connection_id", parse_connection_id(tag.value))
      [] tag.key = COUNTERPARTY_PORT_ID_ATTRIBUTE_KEY ->
            SetAttribute(acc, "counterparty_port_id", parse_port_id(tag.value))
      [] tag.key = COUNTERPARTY_CHANNEL_ID_ATTRIBUTE_KEY ->
            [acc EXCEPT !.attr.counterparty_channel_id = parse_channel_id(tag.value)]
      [] OTHER -> UnknownAttribute(acc, tag)

RECURSIVE AttributesLoop(_, _, _)
AttributesLoop(tags, i, acc) ==
    IF acc.panic \/ i > Len(tags) THEN acc
    ELSE AttributesLoop(tags, i + 1, AttributeTag(acc, tags[i]))

\* extract_attributes_from_tx: [panic, attr]
extract_attributes_from_tx(event) ==
    AttributesLoop(event.attributes, 1, [panic |-> FALSE, attr |-> DefaultAttributes])

\* `packet.f = value.parse().unwrap()`
SetPacketField(acc, field, parsed) ==
    IF parsed = None THEN [acc EXCEPT !.panic = TRUE]
    ELSE [acc EXCEPT !.packet[field] = Unwrap(parsed)]

\* one iteration of the loop of extract_packet_and_write_ack_from_tx
\* (lines 132-147); no arm reads packet_timeout_timestamp
PacketTag(acc, tag) ==
    CASE tag.key = PKT_SRC_PORT_ATTRIBUTE_KEY ->
            SetPacketField(acc, "source_port", parse_port_id(tag.value))
      [] tag.key = PKT_SRC_CHANNEL_ATTRIBUTE_KEY ->
            SetPacketField(acc, "source_channel", parse_channel_id(tag.value))
      [] tag.key = PKT_DST_PORT_ATTRIBUTE_KEY ->
            SetPacketField(acc, "destination_port", parse_port_id(tag.value))
      [] tag.key = PKT_DST_CHANNEL_ATTRIBUTE_KEY ->
            SetPacketField(acc, "destination_channel", parse_channel_id(tag.value))
      [] tag.key = PKT_SEQ_ATTRIBUTE_KEY ->
            SetPacketField(acc, "sequence", parse_u64(tag.value))
      [] tag.key = PKT_TIMEOUT_HEIGHT_ATTRIBUTE_KEY ->
            SetPacketField(acc, "timeout_height", parse_height(tag.value))
      [] tag.key = PKT_DATA_ATTRIBUTE_KEY ->
            [acc EXCEPT !.packet.data = as_bytes(tag.value)]
      [] tag.key = PKT_ACK_ATTRIBUTE_KEY ->
            [acc EXCEPT !.write_ack = Some(as_bytes(tag.value))]
      [] OTHER -> UnknownAttribute(acc, tag)

RECURSIVE PacketLoop(_, _, _)
PacketLoop(tags, i, acc) ==
    IF acc.panic \/ i > Len(tags) THEN acc
    ELSE PacketLoop(tags, i + 1, PacketTag(acc, tags[i]))

\* extract_packet_and_write_ack_from_tx: [panic, packet, write_ack]
extract_packet_and_write_ack_from_tx(event) ==
    PacketLoop(event.attributes, 1,
        [panic |-> FALSE, packet |-> DefaultPacket, write_ack |-> None])

\* IbcEvent::OpenInitChannel(OpenInit::from(attrs)) and the five like it
ChannelEvent(kind, attrs) == [type |-> kind, attrs |-> attrs]
\* IbcEvent::SendPacket(SendPacket { height: Default::default(), packet }) and
\* the packet events like it
PacketEvent(kind, packet) ==
    [type |-> kind, height |-> DefaultHeight, packet |-> packet]
WriteAcknowledgement(packet, ack) ==
    [type |-> "WriteAcknowledgement", height |-> DefaultHeight,
     packet |-> packet, ack |-> ack]

\* the arms of try_from_tx for the six handshake types
HandshakeArm(kind, event) ==
    LET a == extract_attributes_from_tx(event) IN
    IF a.panic THEN Panics ELSE Returns(Some(ChannelEvent(kind, a.attr)))
\* the arms for send_packet, acknowledge_packet and timeout_packet: the event
\* must carry no packet_ack (assert!(write_ack.is_none()))
PacketArm_NoAssert(kind, event) ==
    LET r == extract_packet_and_write_ack_from_tx(event) IN
    IF r.panic THEN Panics ELSE Returns(Some(PacketEvent(kind, r.packet)))
PacketArm_TimeoutOnClose(kind, event) ==
    LET r == extract_packet_and_write_ack_from_tx(event) IN
    IF r.panic \/ IsSome(r.write_ack) THEN Panics
    ELSE Returns(Some(PacketEvent(
            IF kind = "TimeoutPacket" THEN "TimeoutOnClosePacket" ELSE kind,
            r.packet)))
PacketArm(kind, event) ==
    LET r == extract_packet_and_write_ack_from_tx(event) IN
    IF r.panic \/ IsSome(r.write_ack) THEN Panics
    ELSE Returns(Some(PacketEvent(kind, r.packet)))
\* the arm for write_acknowledgement: write_ack.unwrap()
WriteAckArm(event) ==
    LET r == extract_packet_and_write_ack_from_tx(event) IN
    IF r.panic \/ ~IsSome(r.write_ack) THEN Panics
    ELSE Returns(Some(WriteAcknowledgement(r.packet, Unwrap(r.write_ack))))

\* the `_ => None` arm: any other type string is no channel event
UnknownType_AsSendPacket(event) == PacketArm("SendPacket", event)
UnknownType(event) == Returns(None)

\* ics04_channel::events::try_from_tx
try_from_tx(event) ==
    CASE event.type_str = OPEN_INIT_EVENT_TYPE -> HandshakeArm("OpenInitChannel", event)
      [] event.type_str = OPEN_TRY_EVENT_TYPE -> HandshakeArm("OpenTryChannel", event)
      [] event.type_str = OPEN_ACK_EVENT_TYPE -> HandshakeArm("OpenAckChannel", event)
      [] event.type_str = OPEN_CONFIRM_EVENT_TYPE ->
            HandshakeArm("OpenConfirmChannel", event)
      [] event.type_str = CLOSE_INIT_EVENT_TYPE -> HandshakeArm("CloseInitChannel", event)
      [] event.type_str = CLOSE_CONFIRM_EVENT_TYPE ->
            HandshakeArm("CloseConfirmChannel", event)
      [] event.type_str = SEND_PACKET -> PacketArm("SendPacket", event)
      [] event.type_str = WRITE_ACK -> WriteAckArm(event)
      [] event.type_str = ACK_PACKET -> PacketArm("AcknowledgePacket", event)
      [] event.type_str = TIMEOUT -> PacketArm("TimeoutPacket", event)
      [] OTHER -> UnknownType(event)

\* ics02_client::events::try_from_tx and ics03_connection::events::try_from_tx:
\* an event of the kind of the type string, at the default height
ClientEvents_try_from_tx(event) ==
    IF event.type_str \in DOMAIN ClientEventKinds
    THEN Some([type |-> ClientEventKinds[event.type_str], height |-> DefaultHeight])
    ELSE None
ConnectionEvents_try_from_tx(event) ==
    IF event.type_str \in DOMAIN ConnectionEventKinds
    THEN Some([type |-> ConnectionEventKinds[event.type_str],
               height |-> DefaultHeight])
    ELSE None

\* IbcEvent::height: the handshake events keep the height in their Attributes;
\* UpgradeClient, TimeoutOnClosePacket, Empty and ChainError have no arm
height(e) ==
    IF e.type \in HandshakeKinds THEN Returns(e.attrs.height)
    ELSE IF e.type \in PacketKinds
            \cup {"NewBlock", "CreateClient", "UpdateClient", "ClientMisbehaviour",
                  "OpenInitConnection", "OpenTryConnection", "OpenAckConnection",
                  "OpenConfirmConnection"}
    THEN Returns(e.height)
    ELSE Panics

\* IbcEvent::set_height: TimeoutOnClosePacket, Empty and ChainError have no arm
set_height_ChannelOnly(e, h) ==
    IF e.type \in HandshakeKinds THEN Returns([e EXCEPT !.attrs.height = h])
    ELSE Returns(e)
set_height(e, h) ==
    IF e.type \in HandshakeKinds THEN Returns([e EXCEPT !.attrs.height = h])
    ELSE IF e.type \in PacketKinds
            \cup {"NewBlock", "CreateClient", "UpdateClient", "UpgradeClient",
                  "ClientMisbehaviour", "OpenInitConnection", "OpenTryConnection",
                  "OpenAckConnection", "OpenConfirmConnection"}
    THEN Returns([e EXCEPT !.height = h])
    ELSE Panics

\* `res.set_height(height); Some(res)`
SomeAtHeight(e, h) ==
    LET r == set_height(e, h) IN
    IF r.panic THEN Panics ELSE Returns(Some(Value(r)))

\* events::from_tx_response_event: the first decoder that recognises the type
from_tx_response_event(h, event) ==
    LET client_res == ClientEvents_try_from_tx(event) IN
    IF IsSome(client_res) THEN SomeAtHeight(Unwrap(client_res), h)
    ELSE
    LET conn_res == ConnectionEvents_try_from_tx(event) IN
    IF IsSome(conn_res) THEN SomeAtHeight(Unwrap(conn_res), h)
    ELSE
    LET chan_res == try_from_tx(event) IN
    IF chan_res.panic THEN Panics
    ELSE IF IsSome(Value(chan_res)) THEN SomeAtHeight(Unwrap(Value(chan_res)), h)
    ELSE Returns(None)

(***************************************************************************)
(* Decoding of a RawObject: the events of a transaction as a map from       *)
(* "<type>.<key>" to the values of that key, one value per event of the     *)
(* type, and the index of the event to decode.                              *)
(***************************************************************************)
RawObject(h, action, idx, events) ==
    [height |-> h, action |-> action, idx |-> idx, events |-> events]

\* Result<T, BoxError> of a conversion, or its abort
TryOk(v) == [panic |-> FALSE, ok |-> TRUE, value |-> <<v>>, error |-> ""]
TryErr(e) == [panic |-> FALSE, ok |-> FALSE, value |-> <<>>, error |-> e]
TryPanics == [panic |-> TRUE, ok |-> FALSE, value |-> <<>>, error |-> ""]

\* str::parse::<T>() for the type T of the field that is assigned
parse(T, value) ==
    CASE T = "PortId" -> parse_port_id(value)
      [] T = "ChannelId" -> parse_channel_id(value)
      [] T = "ConnectionId" -> parse_connection_id(value)
      [] T = "u64" -> parse_u64(value)
      [] T = "String" -> Some(value)

\* attribute!(obj, key): obj.events.get(key).ok_or(key)?[obj.idx].parse()?
attribute(o, key, T) ==
    IF key \notin DOMAIN o.events THEN TryErr(key)
    ELSE IF o.idx >= Len(o.events[key]) THEN TryPanics
    ELSE LET parsed == parse(T, o.events[key][o.idx + 1]) IN
         IF parsed = None THEN TryErr("parse error") ELSE TryOk(Unwrap(parsed))

\* some_attribute!(obj, key): obj.events.get(key).ok_or(key)?[obj.idx].parse().ok()
some_attribute(o, key, T) ==
    IF key \notin DOMAIN o.events THEN TryErr(key)
    ELSE IF o.idx >= Len(o.events[key]) THEN TryPanics
    ELSE TryOk(parse(T, o.events[key][o.idx + 1]))

\* the first of the field expressions that returns early or aborts, if any
FirstFailure(fields) ==
    LET failed == {i \in 1..Len(fields) : ~fields[i].ok} IN
    IF failed = {} THEN None
    ELSE Some(fields[CHOOSE i \in failed : \A j \in failed : i <= j])

\* Ok(OpenInit(Attributes { height: obj.height, port_id: attribute!(..), .. }))
\* and the five like it, the keys prefixed with the event type
AttributesFromRawObject(kind, type_str, o) ==
    LET port_id == attribute(o, type_str \o ".port_id", "PortId")
        channel_id == some_attribute(o, type_str \o ".channel_id", "ChannelId")
        connection_id == attribute(o, type_str \o ".connection_id", "ConnectionId")
        counterparty_port_id ==
            attribute(o, type_str \o ".counterparty_port_id", "PortId")
        counterparty_channel_id ==
            some_attribute(o, type_str \o ".counterparty_channel_id", "ChannelId")
        failure == FirstFailure(<<port_id, channel_id, connection_id,
                                  counterparty_port_id, counterparty_channel_id>>)
    IN IF IsSome(failure)
       THEN (IF Unwrap(failure).panic THEN TryPanics
             ELSE TryErr(Unwrap(failure).error))
       ELSE TryOk(ChannelEvent(kind,
                [height |-> o.height, port_id |-> Value(port_id),
                 channel_id |-> Value(channel_id),
                 connection_id |-> Value(connection_id),
                 counterparty_port_id |-> Value(counterparty_port_id),
                 counterparty_channel_id |-> Value(counterparty_channel_id)]))

\* p_attribute!(obj, key): attribute! with the key "<obj.action>.<key>"
p_attribute(o, key, T) == attribute(o, o.action \o "." \o key, T)

\* `height_str.as_str().try_into()?`
timeout_height_try_into(height_str) ==
    IF ~height_str.ok THEN height_str
    ELSE LET h == parse_height(Value(height_str)) IN
         IF h = None THEN TryErr("parse error") ELSE TryOk(Unwrap(h))

\* impl TryFrom<RawObject> for Packet: the fields in the order in which they
\* are evaluated; data is left empty
Packet_try_from_NoTimestamp(o) ==
    LET height_str == p_attribute(o, "packet_timeout_height", "String")
        sequence == p_attribute(o, "packet_sequence", "u64")
        source_port == p_attribute(o, "packet_src_port", "PortId")
        source_channel == p_attribute(o, "packet_src_channel", "ChannelId")
        destination_port == p_attribute(o, "packet_dst_port", "PortId")
        destination_channel == p_attribute(o, "packet_dst_channel", "ChannelId")
        timeout_height == timeout_height_try_into(height_str)
        failure == FirstFailure(<<height_str, sequence, source_port, source_channel,
                                  destination_port, destination_channel,
                                  timeout_height>>)
    IN IF IsSome(failure) THEN Unwrap(failure)
       ELSE TryOk(Packet(Value(sequence), Value(source_port), Value(source_channel),
                         Value(destination_port), Value(destination_channel),
                         EmptyData, Value(timeout_height), 0))
Packet_try_from(o) ==
    LET height_str == p_attribute(o, "packet_timeout_height", "String")
        sequence == p_attribute(o, "packet_sequence", "u64")
        source_port == p_attribute(o, "packet_src_port", "PortId")
        source_channel == p_attribute(o, "packet_src_channel", "ChannelId")
        destination_port == p_attribute(o, "packet_dst_port", "PortId")
        destination_channel == p_attribute(o, "packet_dst_channel", "ChannelId")
        timeout_height == timeout_height_try_into(height_str)
        timeout_timestamp == p_attribute(o, "packet_timeout_timestamp", "u64")
        failure == FirstFailure(<<height_str, sequence, source_port, source_channel,
                                  destination_port, destination_channel,
                                  timeout_height, timeout_timestamp>>)
    IN IF IsSome(failure) THEN Unwrap(failure)
       ELSE TryOk(Packet(Value(sequence), Value(source_port), Value(source_channel),
                         Value(destination_port), Value(destination_channel),
                         EmptyData, Value(timeout_height), Value(timeout_timestamp)))

\* the packet events whose conversion reads packet_data into packet.data
\* (SendPacket, ReceivePacket, WriteAcknowledgement); the others keep the
\* empty data of Packet::try_from
ReadsData_Never(kind) == FALSE
ReadsData(kind) == kind \in {"SendPacket", "ReceivePacket", "WriteAcknowledgement"}

\* impl TryFrom<RawObject> for SendPacket, ReceivePacket, WriteAcknowledgement,
\* AcknowledgePacket, TimeoutPacket, TimeoutOnClosePacket: the height of the
\* object, packet_data and packet_ack where the type reads them, then the packet
PacketEventFromRawObject(kind, o) ==
    LET data_str == IF ReadsData(kind) THEN p_attribute(o, "packet_data", "String")
                    ELSE TryOk(EmptyData)
        ack_str == IF kind = "WriteAcknowledgement"
                   THEN p_attribute(o, "packet_ack", "String")
                   ELSE TryOk(EmptyData)
        packet == Packet_try_from(o)
        failure == FirstFailure(<<data_str, ack_str, packet>>)
    IN IF IsSome(failure) THEN Unwrap(failure)
       ELSE LET with_data ==
                   IF ReadsData(kind)
                   THEN [Value(packet) EXCEPT !.data = as_bytes(Value(data_str))]
                   ELSE Value(packet)
            IN TryOk(IF kind = "WriteAcknowledgement"
                     THEN [WriteAcknowledgement(with_data, as_bytes(Value(ack_str)))
                              EXCEPT !.height = o.height]
                     ELSE [PacketEvent(kind, with_data) EXCEPT !.height = o.height])

\* T::try_from(obj) for T one of OpenInit, OpenTry, OpenAck, OpenConfirm,
\* CloseInit, CloseConfirm: the six impl TryFrom<RawObject>, each with the
\* keys of its own event type; and for T one of the six packet events
HandshakeTargets ==
    {"OpenInit", "OpenTry", "OpenAck", "OpenConfirm", "CloseInit", "CloseConfirm"}
PacketTargets ==
    {"SendPacket", "ReceivePacket", "WriteAcknowledgement", "AcknowledgePacket",
     "TimeoutPacket", "TimeoutOnClosePacket"}
try_from(T, o) ==
    CASE T = "OpenInit" ->
            AttributesFromRawObject("OpenInitChannel", "channel_open_init", o)
      [] T = "OpenTry" ->
            AttributesFromRawObject("OpenTryChannel", "channel_open_try", o)
      [] T = "OpenAck" ->
            AttributesFromRawObject("OpenAckChannel", "channel_open_ack", o)
      [] T = "OpenConfirm" ->
            AttributesFromRawObject("OpenConfirmChannel", "channel_open_confirm", o)
      [] T = "CloseInit" ->
            AttributesFromRawObject("CloseInitChannel", "channel_close_init", o)
      [] T = "CloseConfirm" ->
            AttributesFromRawObject("CloseConfirmChannel", "channel_close_confirm", o)
      [] T \in PacketTargets -> PacketEventFromRawObject(T, o)

\* events::extract_events: Ok(()) when the values of "message.action" contain
\* the action string
extract_events_FirstValueOnly(events, action_string) ==
    IF "message.action" \in DOMAIN events
    THEN IF /\ events["message.action"] # <<>>
            /\ events["message.action"][1] = action_string
         THEN TryOk("()")
         ELSE TryErr("Missing action string")
    ELSE TryErr("Incorrect Event Type")
extract_events(events, action_string) ==
    IF "message.action" \in DOMAIN events
    THEN LET message_action == events["message.action"] IN
         IF \E i \in 1..Len(message_action) : message_action[i] = action_string
         THEN TryOk("()")
         ELSE TryErr("Missing action string")
    ELSE TryErr("Incorrect Event Type")

\* make_event!(a, b): the conversion of a RawObject into the generated type,
\* a struct with the field data; b is the action literal of the type
make_event_try_from(b, result) ==
    LET extracted == extract_events(result.events, b) IN
    IF extracted.ok THEN TryOk([data |-> result.events])
    ELSE TryErr(extracted.error)

(***************************************************************************)
(* The ledger side: a typed packet event is written as a raw event with the *)
(* canonical keys.                                                          *)
(***************************************************************************)
PacketTypeStr(kind) ==
    CASE kind = "SendPacket" -> SEND_PACKET
      [] kind = "WriteAcknowledgement" -> WRITE_ACK
      [] kind = "AcknowledgePacket" -> ACK_PACKET
      [] kind = "TimeoutPacket" -> TIMEOUT

packet_attributes(packet) ==
    <<Tag(PKT_DATA_ATTRIBUTE_KEY, packet.data),
      Tag(PKT_TIMEOUT_HEIGHT_ATTRIBUTE_KEY, height_to_string(packet.timeout_height)),
      Tag(PKT_TIMEOUT_TIMESTAMP_ATTRIBUTE_KEY, u64_to_string(packet.timeout_timestamp)),
      Tag(PKT_SEQ_ATTRIBUTE_KEY, u64_to_string(packet.sequence)),
      Tag(PKT_SRC_PORT_ATTRIBUTE_KEY, packet.source_port),
      Tag(PKT_SRC_CHANNEL_ATTRIBUTE_KEY, packet.source_channel),
      Tag(PKT_DST_PORT_ATTRIBUTE_KEY, packet.destination_port),
      Tag(PKT_DST_CHANNEL_ATTRIBUTE_KEY, packet.destination_channel)>>

encode(e) ==
    AbciEvent(PacketTypeStr(e.type),
        packet_attributes(e.packet)
            \o (IF e.type = "WriteAcknowledgement"
                THEN <<Tag(PKT_ACK_ATTRIBUTE_KEY, e.ack)>> ELSE <<>>))

(***************************************************************************)
(* Inputs of the decoder.                                                   *)
(***************************************************************************)
\* the packets of typed events: the packet of the timeout test with every
\* sequence, both timeouts and empty or non-empty data
EventPackets ==
    {Packet(seq, SourcePort, SourceChannel, DestinationPort, DestinationChannel,
            data, th, ts) :
        seq \in Sequences, data \in {EmptyData, "d1"}, th \in Heights,
        ts \in Timestamps}
TypedEvents ==
    {PacketEvent(kind, p) :
        kind \in {"SendPacket", "AcknowledgePacket", "TimeoutPacket"},
        p \in EventPackets}
    \cup {WriteAcknowledgement(p, "ack1") : p \in EventPackets}

\* a complete attribute list of a handshake event and of a packet event
HandshakeAttributes ==
    <<Tag(PORT_ID_ATTRIBUTE_KEY, SourcePort),
      Tag(CHANNEL_ID_ATTRIBUTE_KEY, SourceChannel),
      Tag(CONNECTION_ID_ATTRIBUTE_KEY, TestConnection),
      Tag(COUNTERPARTY_PORT_ID_ATTRIBUTE_KEY, DestinationPort),
      Tag(COUNTERPARTY_CHANNEL_ID_ATTRIBUTE_KEY, DestinationChannel)>>
PacketAttributes ==
    packet_attributes(Packet(1, SourcePort, SourceChannel, DestinationPort,
                             DestinationChannel, "d1", 1, 1))

TypeStrs ==
    {OPEN_INIT_EVENT_TYPE, OPEN_TRY_EVENT_TYPE, OPEN_ACK_EVENT_TYPE,
     OPEN_CONFIRM_EVENT_TYPE, CLOSE_INIT_EVENT_TYPE, CLOSE_CONFIRM_EVENT_TYPE,
     SEND_PACKET, WRITE_ACK, ACK_PACKET, TIMEOUT}
    \cup DOMAIN ClientEventKinds \cup DOMAIN ConnectionEventKinds
    \cup {"recv_packet", "timeout_on_close_packet", "message"}

\* the complete attribute list of a type string
BaseAttributes(type_str) ==
    IF type_str = WRITE_ACK
    THEN PacketAttributes \o <<Tag(PKT_ACK_ATTRIBUTE_KEY, "ack1")>>
    ELSE IF type_str \in {SEND_PACKET, ACK_PACKET, TIMEOUT, "recv_packet",
                           "timeout_on_close_packet"}
    THEN PacketAttributes
    ELSE HandshakeAttributes

\* a list of tags with one of them left out, or with a value that is no
\* identifier, number or height, or with more tags (keys no decoder knows,
\* at the end, at the front or in between; an acknowledgement; a key given a
\* second time), or empty
WithoutTag(tags, i) == SubSeq(tags, 1, i - 1) \o SubSeq(tags, i + 1, Len(tags))
UnknownTags == <<Tag("module", "ibc_channel"), Tag("sender", "not/valid")>>
Variants(tags) ==
    {tags, <<>>}
    \cup {WithoutTag(tags, i) : i \in 1..Len(tags)}
    \cup {[tags EXCEPT ![i].value = "not/valid"] : i \in 1..Len(tags)}
    \cup {Append(tags, UnknownTags[1]),
          <<UnknownTags[2]>> \o tags,
          <<UnknownTags[1]>> \o WithoutTag(tags, 1) \o <<UnknownTags[2]>>,
          SubSeq(tags, 1, 2) \o UnknownTags \o SubSeq(tags, 3, Len(tags)),
          [tags EXCEPT ![2].value = "not/valid"] \o UnknownTags,
          Append(tags, Tag(PKT_ACK_ATTRIBUTE_KEY, "ack2")),
          Append(tags, tags[1])}

RawEvents ==
    UNION {{AbciEvent(t, tags) : tags \in Variants(BaseAttributes(t))} :
              t \in TypeStrs}

\* the events map of a transaction with two handshake events of one type:
\* the fields of the first and of the second event
HandshakeFields ==
    [port_id |-> <<SourcePort, DestinationPort>>,
     channel_id |-> <<SourceChannel, DestinationChannel>>,
     connection_id |-> <<TestConnection, OtherConnection>>,
     counterparty_port_id |-> <<DestinationPort, SourcePort>>,
     counterparty_channel_id |-> <<DestinationChannel, SourceChannel>>]
\* the map with the keys of `fields`, prefixed with the type
EventsMap(type_str, fields) ==
    [key \in {type_str \o "." \o f : f \in DOMAIN fields} |->
        fields[CHOOSE f \in DOMAIN fields : type_str \o "." \o f = key]]
WithoutKey(fields, f) == [g \in (DOMAIN fields) \ {f} |-> fields[g]]
\* the complete map, the empty one, one key absent, one key whose values are
\* no identifiers, one key with the value of the first event only
FieldVariants ==
    {HandshakeFields, [f \in {} |-> <<>>]}
    \cup {WithoutKey(HandshakeFields, f) : f \in DOMAIN HandshakeFields}
    \cup {[HandshakeFields EXCEPT ![f] = <<"not/valid", "not/valid">>] :
              f \in DOMAIN HandshakeFields}
    \cup {[HandshakeFields EXCEPT ![f] = <<HandshakeFields[f][1]>>] :
              f \in {"port_id", "channel_id"}}
RawObjects ==
    {RawObject(h, t, idx, EventsMap(t, fields)) :
        h \in {MaxHeight}, idx \in {0, 1}, fields \in FieldVariants,
        t \in {OPEN_INIT_EVENT_TYPE, OPEN_TRY_EVENT_TYPE, OPEN_ACK_EVENT_TYPE,
               OPEN_CONFIRM_EVENT_TYPE, CLOSE_INIT_EVENT_TYPE,
               CLOSE_CONFIRM_EVENT_TYPE}}

\* the type strings of the six packet events, the prefix of their keys
PacketActions ==
    {SEND_PACKET, "recv_packet", WRITE_ACK, ACK_PACKET, TIMEOUT,
     "timeout_on_close_packet"}

\* the events map of a transaction with two packet events of one type
PacketFields ==
    [packet_timeout_height |-> <<height_to_string(1), height_to_string(0)>>,
     packet_sequence |-> <<u64_to_string(1), u64_to_string(2)>>,
     packet_src_port |-> <<SourcePort, DestinationPort>>,
     packet_src_channel |-> <<SourceChannel, DestinationChannel>>,
     packet_dst_port |-> <<DestinationPort, SourcePort>>,
     packet_dst_channel |-> <<DestinationChannel, SourceChannel>>,
     packet_timeout_timestamp |-> <<u64_to_string(1), u64_to_string(0)>>,
     packet_data |-> <<"d1", EmptyData>>,
     packet_ack |-> <<"ack1", "ack2">>]
\* the complete map, one key absent, one key whose values do not parse, one
\* key with the value of the first event only
PacketFieldVariants ==
    {PacketFields}
    \cup {WithoutKey(PacketFields, f) : f \in DOMAIN PacketFields}
    \cup {[PacketFields EXCEPT ![f] = <<"not/valid", "not/valid">>] :
              f \in (DOMAIN PacketFields) \ {"packet_data", "packet_ack"}}
    \cup {[PacketFields EXCEPT ![f] = <<PacketFields[f][1]>>] :
              f \in {"packet_sequence"}}

\* the ledger side: a typed packet event at height h as the only event of
\* its type in a RawObject
to_raw_object(e, h) ==
    LET fields ==
           [packet_timeout_height |-> <<height_to_string(e.packet.timeout_height)>>,
            packet_sequence |-> <<u64_to_string(e.packet.sequence)>>,
            packet_src_port |-> <<e.packet.source_port>>,
            packet_src_channel |-> <<e.packet.source_channel>>,
            packet_dst_port |-> <<e.packet.destination_port>>,
            packet_dst_channel |-> <<e.packet.destination_channel>>,
            packet_timeout_timestamp |-> <<u64_to_string(e.packet.timeout_timestamp)>>,
            packet_data |-> <<e.packet.data>>,
            packet_ack |-> <<IF e.type = "WriteAcknowledgement" THEN e.ack
                             ELSE EmptyData>>]
    IN RawObject(h, PacketTypeStr(e.type), 0,
                 EventsMap(PacketTypeStr(e.type),
                           IF e.type = "WriteAcknowledgement" THEN fields
                           ELSE WithoutKey(fields, "packet_ack")))

\* RawObjects of packet events: the variants under every action, the keys
\* under another prefix than the action, and the typed events written out
PacketObjects ==
    {RawObject(h, a, idx, EventsMap(a, fields)) :
        h \in {MaxHeight}, idx \in {0, 1}, fields \in PacketFieldVariants,
        a \in PacketActions}
    \cup {RawObject(MaxHeight, SEND_PACKET, 0, EventsMap("recv_packet", PacketFields))}
    \cup {to_raw_object(e, h) : e \in TypedEvents, h \in 1..MaxHeight}

\* the action literals of the types generated with make_event!, and
\* RawObjects with and without the key "message.action": its values are the
\* literal alone, among others, in second place, within a longer string,
\* another action, or none
ActionLiterals == {"transfer", "update_client"}
MessageObjects ==
    {RawObject(MaxHeight, "transfer", 0, events) : events \in
        {[key \in {"message.action", "message.module"} |->
             IF key = "message.action" THEN actions ELSE <<"bank">>] :
                 actions \in {<<"transfer">>, <<"transfer", "update_client">>,
                              <<"send", "update_client", "send">>,
                              <<"transfer_out">>, <<"send">>, <<>>}}
        \cup {[key \in {"message.module"} |-> <<"transfer">>],
              [key \in {"message.actions"} |-> <<"transfer">>],
              [key \in {} |-> <<>>]}}

(***************************************************************************)
(* The decoder at work: a raw event arrives with the height of its block,   *)
(* read from the ledger or written by the ledger for a typed event; one of  *)
(* the decoders is applied to it; the result is consumed.                   *)
(***************************************************************************)
InitEvents ==
    /\ ctx = DefaultContext
    /\ msg = None
    /\ out = None
    /\ phase = "idle"
    /\ timedOut = {}
    /\ EventsIdle
    /\ ClientStateIdle
    /\ StartIdle

ReceiveRawEvent ==
    /\ raw = None
    /\ obj = None
    /\ ibc_event = None
    /\ \E r \in RawEvents, h \in 1..MaxHeight :
          /\ raw' = Some(r)
          /\ block' = h
    /\ sent' = None
    /\ UNCHANGED <<decoded, via, obj, ibc_event>>
    /\ UNCHANGED <<vars, cvars, svars>>

EmitPacketEvent ==
    /\ raw = None
    /\ obj = None
    /\ ibc_event = None
    /\ \E e \in TypedEvents, h \in 1..MaxHeight :
          /\ raw' = Some(encode(e))
          /\ sent' = Some(e)
          /\ block' = h
    /\ UNCHANGED <<decoded, via, obj, ibc_event>>
    /\ UNCHANGED <<vars, cvars, svars>>

DecodeChannelTx ==
    /\ raw # None
    /\ decoded = None
    /\ decoded' = Some(try_from_tx(Unwrap(raw)))
    /\ via' = "try_from_tx"
    /\ UNCHANGED <<raw, block, sent, obj, ibc_event>>
    /\ UNCHANGED <<vars, cvars, svars>>

DecodeTxResponse ==
    /\ raw # None
    /\ decoded = None
    /\ decoded' = Some(from_tx_response_event(block, Unwrap(raw)))
    /\ via' = "from_tx_response_event"
    /\ UNCHANGED <<raw, block, sent, obj, ibc_event>>
    /\ UNCHANGED <<vars, cvars, svars>>

\* a RawObject arrives from the event stream of a transaction
ReceiveRawObject ==
    /\ raw = None
    /\ obj = None
    /\ ibc_event = None
    /\ \E o \in RawObjects \cup PacketObjects \cup MessageObjects : obj' = Some(o)
    /\ UNCHANGED <<raw, block, sent, decoded, via, ibc_event>>
    /\ UNCHANGED <<vars, cvars, svars>>

\* T::try_from(obj), for one of the handshake and packet event types
DecodeRawObject ==
    /\ obj # None
    /\ decoded = None
    /\ \E target \in HandshakeTargets \cup PacketTargets :
          /\ decoded' = Some(try_from(target, Unwrap(obj)))
          /\ via' = target
    /\ UNCHANGED <<raw, block, sent, obj, ibc_event>>
    /\ UNCHANGED <<vars, cvars, svars>>

\* extract_events(&obj.events, b) and T::try_from(obj) for a type T generated
\* by make_event!(T, b); `via` names the call and the literal
ExtractVia(b) == "extract_events:" \o b
MakeEventVia(b) == "make_event:" \o b

ExtractEvents ==
    /\ obj # None
    /\ decoded = None
    /\ \E b \in ActionLiterals :
          /\ decoded' = Some(extract_events(Unwrap(obj).events, b))
          /\ via' = ExtractVia(b)
    /\ UNCHANGED <<raw, block, sent, obj, ibc_event>>
    /\ UNCHANGED <<vars, cvars, svars>>

ConvertToMadeEvent ==
    /\ obj # None
    /\ decoded = None
    /\ \E b \in ActionLiterals :
          /\ decoded' = Some(make_event_try_from(b, Unwrap(obj)))
          /\ via' = MakeEventVia(b)
    /\ UNCHANGED <<raw, block, sent, obj, ibc_event>>
    /\ UNCHANGED <<vars, cvars, svars>>

\* the events whose height is set and read: one of every variant of IbcEvent,
\* as constructed (at the default height; Empty and ChainError hold a string)
IbcEvents ==
    {ChannelEvent(kind, DefaultAttributes) : kind \in HandshakeKinds}
    \cup {PacketEvent(kind, DefaultPacket) :
              kind \in {"SendPacket", "ReceivePacket", "AcknowledgePacket",
                        "TimeoutPacket", "TimeoutOnClosePacket"}}
    \cup {WriteAcknowledgement(DefaultPacket, "ack1")}
    \cup {[type |-> kind, height |-> DefaultHeight] :
              kind \in {"NewBlock", "CreateClient", "UpdateClient", "UpgradeClient",
                        "ClientMisbehaviour", "OpenInitConnection",
                        "OpenTryConnection", "OpenAckConnection",
                        "OpenConfirmConnection"}}
    \cup {[type |-> kind, text |-> "response"] : kind \in {"Empty", "ChainError"}}

\* event.set_height(h) on an event of any variant
SetEventHeight ==
    /\ raw = None
    /\ obj = None
    /\ ibc_event = None
    /\ \E e \in IbcEvents, h \in 1..MaxHeight :
          /\ ibc_event' = Some(e)
          /\ block' = h
          /\ decoded' = Some(set_height(e, h))
    /\ via' = "set_height"
    /\ UNCHANGED <<raw, sent, obj>>
    /\ UNCHANGED <<vars, cvars, svars>>

\* event.height() on the event whose height was set
ReadEventHeight ==
    /\ via = "set_height"
    /\ ~Unwrap(decoded).panic
    /\ ibc_event' = Some(Value(Unwrap(decoded)))
    /\ decoded' = Some(height(Value(Unwrap(decoded))))
    /\ via' = "height"
    /\ UNCHANGED <<raw, block, sent, obj>>
    /\ UNCHANGED <<vars, cvars, svars>>

ConsumeEvent ==
    /\ decoded # None
    /\ obj' = None
    /\ ibc_event' = None
    /\ raw' = None
    /\ block' = 0
    /\ sent' = None
    /\ decoded' = None
    /\ via' = "none"
    /\ UNCHANGED <<vars, cvars, svars>>

NextEvents ==
    \/ ReceiveRawEvent
    \/ EmitPacketEvent
    \/ DecodeChannelTx
    \/ DecodeTxResponse
    \/ ReceiveRawObject
    \/ DecodeRawObject
    \/ ExtractEvents
    \/ ConvertToMadeEvent
    \/ SetEventHeight
    \/ ReadEventHeight
    \/ ConsumeEvent

SpecEvents == InitEvents /\ [][NextEvents]_evars

(***************************************************************************)
(* Properties of the decoder.                                               *)
(***************************************************************************)
RawEvent == Unwrap(raw)
Decoded == Unwrap(decoded)
\* the decoder returned Some(event)
DecodedSome == decoded # None /\ ~Decoded.panic /\ IsSome(Value(Decoded))
DecodedEvent == Unwrap(Value(Decoded))
HasTag(key) ==
    \E i \in 1..Len(RawEvent.attributes) : RawEvent.attributes[i].key = key

\* the mandatory attributes of a recognised channel or packet type
MandatoryKeys ==
    IF RawEvent.type_str \in {SEND_PACKET, WRITE_ACK, ACK_PACKET, TIMEOUT}
    THEN {PKT_SEQ_ATTRIBUTE_KEY, PKT_SRC_PORT_ATTRIBUTE_KEY,
          PKT_SRC_CHANNEL_ATTRIBUTE_KEY, PKT_DST_PORT_ATTRIBUTE_KEY,
          PKT_DST_CHANNEL_ATTRIBUTE_KEY, PKT_TIMEOUT_HEIGHT_ATTRIBUTE_KEY}
    ELSE IF RawEvent.type_str \in
              {OPEN_INIT_EVENT_TYPE, OPEN_TRY_EVENT_TYPE, OPEN_ACK_EVENT_TYPE,
               OPEN_CONFIRM_EVENT_TYPE, CLOSE_INIT_EVENT_TYPE,
               CLOSE_CONFIRM_EVENT_TYPE}
    THEN {PORT_ID_ATTRIBUTE_KEY, CONNECTION_ID_ATTRIBUTE_KEY,
          COUNTERPARTY_PORT_ID_ATTRIBUTE_KEY}
    ELSE {}

\* C18: for a raw event of a recognised channel or packet type that lacks a
\* mandatory attribute, try_from_tx yields a decode error: it never returns an
\* event (whose field would hold a default value).
C18_MissingMandatoryAttributeIsError ==
    (via = "try_from_tx" /\ \E k \in MandatoryKeys : ~HasTag(k)) => ~DecodedSome

\* C19: a typed packet event (SendPacket, WriteAcknowledgement,
\* AcknowledgePacket, TimeoutPacket) written as a raw event with the canonical
\* keys and decoded again is an event of the same kind, equal in every packet
\* field (and in the acknowledgement), whatever the packet's fields.
C19_PacketEventRoundTrip ==
    (sent # None /\ decoded # None) =>
        /\ DecodedSome
        /\ DecodedEvent.type = Unwrap(sent).type
        /\ DecodedEvent.packet = Unwrap(sent).packet
        /\ Unwrap(sent).type = "WriteAcknowledgement"
              => DecodedEvent.ack = Unwrap(sent).ack

ChannelTypeStrs ==
    {OPEN_INIT_EVENT_TYPE, OPEN_TRY_EVENT_TYPE, OPEN_ACK_EVENT_TYPE,
     OPEN_CONFIRM_EVENT_TYPE, CLOSE_INIT_EVENT_TYPE, CLOSE_CONFIRM_EVENT_TYPE,
     SEND_PACKET, WRITE_ACK, ACK_PACKET, TIMEOUT}
RecognisedTypeStrs ==
    ChannelTypeStrs \cup DOMAIN ClientEventKinds \cup DOMAIN ConnectionEventKinds
ViaTx == via \in {"try_from_tx", "from_tx_response_event"}

\* C21: a raw event whose type string is not a recognised one yields no event
\* and no error or abort, whatever its attributes: try_from_tx returns None for
\* a type that is none of the ten channel types, and from_tx_response_event
\* returns None for a type none of the three decoders recognises.
C21_UnknownTypeYieldsNoEvent ==
    /\ (via = "try_from_tx" /\ RawEvent.type_str \notin ChannelTypeStrs)
          => Decoded = Returns(None)
    /\ (via = "from_tx_response_event" /\ RawEvent.type_str \notin RecognisedTypeStrs)
          => Decoded = Returns(None)

\* a recv_packet event whose first value does not parse went through the
\* three decoders and gave None
C21_Witness ==
    /\ via = "from_tx_response_event"
    /\ RawEvent.type_str = "recv_packet"
    /\ Len(RawEvent.attributes) > 0
    /\ RawEvent.attributes[1].value = "not/valid"
    /\ Decoded = Returns(None)

\* the value of the last packet_ack tag of the raw event
LastAck ==
    LET is == {i \in 1..Len(RawEvent.attributes) :
                  RawEvent.attributes[i].key = PKT_ACK_ATTRIBUTE_KEY}
        last == CHOOSE i \in is : \A j \in is : j <= i
    IN RawEvent.attributes[last].value

\* C22: an event with an acknowledgement is decoded exactly from the type
\* write_acknowledgement: a decoded WriteAcknowledgement comes from a raw event
\* of that type that carries packet_ack, and its ack is the bytes of that
\* attribute (of the last one, if given twice); a decoded SendPacket,
\* AcknowledgePacket or TimeoutPacket comes from a raw event without packet_ack;
\* and the type write_acknowledgement decodes to no other kind of event.
C22_AckIffWriteAcknowledgement ==
    (ViaTx /\ DecodedSome) =>
        /\ DecodedEvent.type = "WriteAcknowledgement"
              => /\ RawEvent.type_str = WRITE_ACK
                 /\ HasTag(PKT_ACK_ATTRIBUTE_KEY)
                 /\ DecodedEvent.ack = as_bytes(LastAck)
        /\ DecodedEvent.type \in {"SendPacket", "AcknowledgePacket", "TimeoutPacket"}
              => ~HasTag(PKT_ACK_ATTRIBUTE_KEY)
        /\ RawEvent.type_str = WRITE_ACK => DecodedEvent.type = "WriteAcknowledgement"

\* a write_acknowledgement with two packet_ack tags was decoded
C22_Witness ==
    /\ via = "try_from_tx"
    /\ DecodedSome
    /\ DecodedEvent.type = "WriteAcknowledgement"
    /\ RawEvent.attributes[Len(RawEvent.attributes)] = Tag(PKT_ACK_ATTRIBUTE_KEY, "ack2")
    /\ RawEvent.attributes[Len(RawEvent.attributes) - 1].key = PKT_ACK_ATTRIBUTE_KEY
    /\ DecodedEvent.ack = "ack2"

\* the canonical attribute keys, and a raw event without its other tags
CanonicalKeys ==
    {PORT_ID_ATTRIBUTE_KEY, CHANNEL_ID_ATTRIBUTE_KEY, CONNECTION_ID_ATTRIBUTE_KEY,
     COUNTERPARTY_PORT_ID_ATTRIBUTE_KEY, COUNTERPARTY_CHANNEL_ID_ATTRIBUTE_KEY,
     PKT_SEQ_ATTRIBUTE_KEY, PKT_DATA_ATTRIBUTE_KEY, PKT_SRC_PORT_ATTRIBUTE_KEY,
     PKT_SRC_CHANNEL_ATTRIBUTE_KEY, PKT_DST_PORT_ATTRIBUTE_KEY,
     PKT_DST_CHANNEL_ATTRIBUTE_KEY, PKT_TIMEOUT_HEIGHT_ATTRIBUTE_KEY,
     PKT_TIMEOUT_TIMESTAMP_ATTRIBUTE_KEY, PKT_ACK_ATTRIBUTE_KEY}
IsCanonical(tag) == tag.key \in CanonicalKeys
WithoutUnknown(event) ==
    AbciEvent(event.type_str, SelectSeq(event.attributes, IsCanonical))
HasUnknownTag ==
    \E i \in 1..Len(RawEvent.attributes) : ~IsCanonical(RawEvent.attributes[i])

\* C23: for a raw event of a recognised type, the decoders give the same
\* result (the same event in every field, or None, or the same abort) as for
\* the raw event without its tags of non-canonical keys, wherever in the list
\* those tags stand.
C23_UnknownAttributesIgnored ==
    (ViaTx /\ decoded # None /\ RawEvent.type_str \in RecognisedTypeStrs) =>
        Decoded = IF via = "try_from_tx"
                  THEN try_from_tx(WithoutUnknown(RawEvent))
                  ELSE from_tx_response_event(block, WithoutUnknown(RawEvent))

\* a handshake event with two unknown tags between its attributes was decoded
C23_Witness ==
    /\ via = "try_from_tx"
    /\ RawEvent.type_str = OPEN_TRY_EVENT_TYPE
    /\ Len(RawEvent.attributes) = Len(HandshakeAttributes) + 2
    /\ ~IsCanonical(RawEvent.attributes[3])
    /\ ~IsCanonical(RawEvent.attributes[4])
    /\ DecodedSome
    /\ DecodedEvent.attrs.port_id = SourcePort
    /\ DecodedEvent.attrs.counterparty_channel_id = Some(DestinationChannel)

\* a handshake event was decoded, by the tx decoder or from a RawObject
HandshakeTypeStrs ==
    {OPEN_INIT_EVENT_TYPE, OPEN_TRY_EVENT_TYPE, OPEN_ACK_EVENT_TYPE,
     OPEN_CONFIRM_EVENT_TYPE, CLOSE_INIT_EVENT_TYPE, CLOSE_CONFIRM_EVENT_TYPE}
ViaHandshakeTx ==
    via = "try_from_tx" /\ RawEvent.type_str \in HandshakeTypeStrs
ViaRawObject == via \in HandshakeTargets
Obj == Unwrap(obj)
\* the type string whose keys the decoder named by `via` reads
TargetTypeStr ==
    CASE via = "OpenInit" -> OPEN_INIT_EVENT_TYPE
      [] via = "OpenTry" -> OPEN_TRY_EVENT_TYPE
      [] via = "OpenAck" -> OPEN_ACK_EVENT_TYPE
      [] via = "OpenConfirm" -> OPEN_CONFIRM_EVENT_TYPE
      [] via = "CloseInit" -> CLOSE_INIT_EVENT_TYPE
      [] via = "CloseConfirm" -> CLOSE_CONFIRM_EVENT_TYPE
ObjHasKey(f) == (TargetTypeStr \o "." \o f) \in DOMAIN Obj.events
\* the key is present and its value at obj.idx is an identifier
ObjHasValid(f) ==
    /\ ObjHasKey(f)
    /\ Obj.idx < Len(Obj.events[TargetTypeStr \o "." \o f])
    /\ Obj.events[TargetTypeStr \o "." \o f][Obj.idx + 1] # "not/valid"
MandatoryFields == {"port_id", "connection_id", "counterparty_port_id"}
OptionalFields == {"channel_id", "counterparty_channel_id"}

\* C24, tx decoder: a handshake raw event that lacks a mandatory key gives no
\* event; one that has the mandatory keys gives an event whose channel_id and
\* counterparty_channel_id are None when their keys are absent.
C24_TxDecoder ==
    (ViaHandshakeTx /\ ~Decoded.panic) =>
        /\ (\E k \in MandatoryKeys : ~HasTag(k)) => ~DecodedSome
        /\ (\A k \in MandatoryKeys : HasTag(k)) =>
              /\ DecodedSome
              /\ ~HasTag(CHANNEL_ID_ATTRIBUTE_KEY)
                    => DecodedEvent.attrs.channel_id = None
              /\ ~HasTag(COUNTERPARTY_CHANNEL_ID_ATTRIBUTE_KEY)
                    => DecodedEvent.attrs.counterparty_channel_id = None

\* C24, RawObject decoders: a RawObject that lacks a mandatory key gives an
\* error; one whose mandatory keys are present and valid gives Ok(event), with
\* None in channel_id and counterparty_channel_id when their keys are absent.
C24_RawObjectDecoders ==
    (ViaRawObject /\ ~Decoded.panic) =>
        /\ (\E f \in MandatoryFields : ~ObjHasKey(f)) => ~Decoded.ok
        /\ (\A f \in MandatoryFields : ObjHasValid(f)) =>
              /\ Decoded.ok
              /\ \A f \in OptionalFields :
                    ~ObjHasKey(f) => Value(Decoded).attrs[f] = None

\* C24: in handshake event decoding the absence of an optional field
\* (channel_id, counterparty_channel_id) yields None for that field and a
\* decoded event, and the absence of a mandatory field yields an error, in the
\* tx decoder and in the six RawObject decoders alike.
C24_OptionalNoneMandatoryError == C24_TxDecoder /\ C24_RawObjectDecoders

\* C31: for every IbcEvent variant v and height h, v.set_height(h) completes
\* and afterwards v.height() returns h, UpgradeClient, TimeoutOnClosePacket,
\* Empty and ChainError included; neither accessor aborts for any variant.
C31_HeightSetAndReadForEveryVariant ==
    /\ via = "set_height" => ~Decoded.panic
    /\ via = "height" => Decoded = Returns(block)

\* the kind of event of each arm of try_from_tx, by its type string
ChannelKindOf ==
    [channel_open_init |-> "OpenInitChannel", channel_open_try |-> "OpenTryChannel",
     channel_open_ack |-> "OpenAckChannel",
     channel_open_confirm |-> "OpenConfirmChannel",
     channel_close_init |-> "CloseInitChannel",
     channel_close_confirm |-> "CloseConfirmChannel",
     send_packet |-> "SendPacket", write_acknowledgement |-> "WriteAcknowledgement",
     acknowledge_packet |-> "AcknowledgePacket", timeout_packet |-> "TimeoutPacket"]

\* C33: try_from_tx produces only the ten kinds OpenInit, OpenTry, OpenAck,
\* OpenConfirm, CloseInit, CloseConfirm (of a channel), SendPacket,
\* WriteAcknowledgement, AcknowledgePacket and TimeoutPacket: no raw event,
\* whatever its type string, is decoded into ReceivePacket or
\* TimeoutOnClosePacket, and each recognised type string gives its one kind.
C33_TenKindsOnePerTypeString ==
    (via = "try_from_tx" /\ DecodedSome) =>
        /\ DecodedEvent.type \notin {"ReceivePacket", "TimeoutOnClosePacket"}
        /\ RawEvent.type_str \in DOMAIN ChannelKindOf
        /\ DecodedEvent.type = ChannelKindOf[RawEvent.type_str]

\* a complete timeout_packet event was decoded into a TimeoutPacket
C33_Witness ==
    /\ via = "try_from_tx"
    /\ RawEvent = AbciEvent(TIMEOUT, PacketAttributes)
    /\ DecodedSome
    /\ DecodedEvent.type = "TimeoutPacket"

\* C34: from_tx_response_event returns Some(event) or None for every raw
\* event, whatever its type string, attribute keys and attribute values
\* (values that are no identifier, no u64 and no height included): it never
\* aborts.
C34_DecodingNeverAborts ==
    via = "from_tx_response_event" => ~Decoded.panic

\* a packet event was decoded from a RawObject whose index is within every
\* list of values; the key of a packet attribute and its value at that index
ViaPacketObject ==
    /\ via \in PacketTargets
    /\ decoded # None
    /\ \A k \in DOMAIN Obj.events : Obj.idx < Len(Obj.events[k])
PKey(f) == Obj.action \o "." \o f
ObjHasPKey(f) == PKey(f) \in DOMAIN Obj.events
PValue(f) == Obj.events[PKey(f)][Obj.idx + 1]

\* C32: the tx decoder leaves timeout_timestamp at the default 0 whatever
\* attributes the raw event carries, whereas the RawObject path requires
\* packet_timeout_timestamp and parses it; for one and the same typed event,
\* written as a raw event and as a RawObject, the two paths disagree on
\* timeout_timestamp exactly when it is non-zero.
C32_TimestampOnlyOnRawObjectPath ==
    /\ (via = "try_from_tx" /\ DecodedSome /\ DecodedEvent.type \in PacketKinds)
          => DecodedEvent.packet.timeout_timestamp = 0
    /\ ViaPacketObject =>
          /\ ~Decoded.panic
          /\ ~ObjHasPKey("packet_timeout_timestamp") => ~Decoded.ok
          /\ Decoded.ok =>
                Some(Value(Decoded).packet.timeout_timestamp)
                    = parse_u64(PValue("packet_timeout_timestamp"))
    /\ (sent # None /\ via = "try_from_tx" /\ decoded # None) =>
          LET e == Unwrap(sent)
              from_object == try_from(e.type, to_raw_object(e, block))
          IN /\ DecodedSome
             /\ from_object.ok
             /\ Value(from_object).packet.timeout_timestamp
                    = e.packet.timeout_timestamp
             /\ (DecodedEvent.packet.timeout_timestamp
                    # Value(from_object).packet.timeout_timestamp)
                   <=> e.packet.timeout_timestamp # 0

\* a SendPacket with a non-zero timeout timestamp was written as a raw event
\* and decoded by the tx decoder, which gave timestamp 0
C32_Witness ==
    /\ sent # None
    /\ via = "try_from_tx"
    /\ Unwrap(sent).type = "SendPacket"
    /\ Unwrap(sent).packet.timeout_timestamp = MaxTime
    /\ DecodedSome
    /\ DecodedEvent.packet.timeout_timestamp = 0
    /\ Value(try_from("SendPacket", to_raw_object(Unwrap(sent), block)))
           .packet.timeout_timestamp = MaxTime

\* the seven attributes every packet event reads from a RawObject
PacketKeys ==
    {"packet_timeout_height", "packet_sequence", "packet_src_port",
     "packet_src_channel", "packet_dst_port", "packet_dst_channel",
     "packet_timeout_timestamp"}

\* C35: a packet event decoded from a RawObject reads every key as
\* "<action>.<attribute>" at index idx; it is an error (never a defaulted
\* packet) when one of the seven packet attributes is missing; SendPacket,
\* ReceivePacket and WriteAcknowledgement also require packet_data and put its
\* bytes into packet.data, AcknowledgePacket, TimeoutPacket and
\* TimeoutOnClosePacket leave packet.data empty; the height of the event is
\* the height of the RawObject.
C35_PacketFromRawObject ==
    ViaPacketObject =>
        /\ ~Decoded.panic
        /\ (\E f \in PacketKeys : ~ObjHasPKey(f)) => ~Decoded.ok
        /\ (/\ via \in {"SendPacket", "ReceivePacket", "WriteAcknowledgement"}
            /\ ~ObjHasPKey("packet_data")) => ~Decoded.ok
        /\ Decoded.ok =>
              /\ Value(Decoded).type = via
              /\ Value(Decoded).height = Obj.height
              /\ Value(Decoded).packet =
                    Packet(Unwrap(parse_u64(PValue("packet_sequence"))),
                           PValue("packet_src_port"), PValue("packet_src_channel"),
                           PValue("packet_dst_port"), PValue("packet_dst_channel"),
                           IF via \in {"SendPacket", "ReceivePacket",
                                       "WriteAcknowledgement"}
                           THEN as_bytes(PValue("packet_data")) ELSE EmptyData,
                           Unwrap(parse_height(PValue("packet_timeout_height"))),
                           Unwrap(parse_u64(PValue("packet_timeout_timestamp"))))

\* the first of two recv_packet events of a transaction became a
\* ReceivePacket at the height of the RawObject, with its data
C35_Witness ==
    /\ via = "ReceivePacket"
    /\ Obj = RawObject(MaxHeight, "recv_packet", 0,
                       EventsMap("recv_packet", PacketFields))
    /\ decoded # None
    /\ Decoded.ok
    /\ Value(Decoded).type = "ReceivePacket"
    /\ Value(Decoded).height = MaxHeight
    /\ Value(Decoded).packet.data = "d1"
    /\ Value(Decoded).packet.sequence = 1

\* the RawObject has the key "message.action"; its values contain b
HasMessageAction == "message.action" \in DOMAIN Obj.events
ContainsAction(b) ==
    /\ HasMessageAction
    /\ \E i \in 1..Len(Obj.events["message.action"]) :
          Obj.events["message.action"][i] = b

\* C36: extract_events(events, action) is Ok exactly when the map has an entry
\* "message.action" whose list of values contains action as a whole element;
\* it is the error "Missing action string" when the entry is there without
\* action, and "Incorrect Event Type" when there is no entry; a type made by
\* make_event! converts from a RawObject exactly when extract_events is Ok,
\* and then holds a copy of all the events of the RawObject.
C36_ExtractEventsAndMadeEvents ==
    \A b \in ActionLiterals :
        /\ via = ExtractVia(b) =>
              /\ Decoded.ok <=> ContainsAction(b)
              /\ Decoded.ok => Decoded = TryOk("()")
              /\ (HasMessageAction /\ ~ContainsAction(b))
                    => Decoded = TryErr("Missing action string")
              /\ ~HasMessageAction => Decoded = TryErr("Incorrect Event Type")
        /\ via = MakeEventVia(b) =>
              /\ Decoded.ok <=> ContainsAction(b)
              /\ Decoded.ok => Decoded = TryOk([data |-> Obj.events])
              /\ ~Decoded.ok => Decoded = extract_events(Obj.events, b)

\* a RawObject whose actions are send, update_client, send was converted
\* into the type of update_client, with all its events
C36_Witness ==
    /\ via = MakeEventVia("update_client")
    /\ Decoded.ok
    /\ Obj.events["message.action"] = <<"send", "update_client", "send">>
    /\ Value(Decoded).data = Obj.events
    /\ DOMAIN Value(Decoded).data = {"message.action", "message.module"}

(***************************************************************************)
(* The client state envelope: an AnyClientState crosses the wire as an Any, *)
(* a type URL and the encoding of the state of that type.                   *)
(***************************************************************************)
TENDERMINT_CLIENT_STATE_TYPE_URL == "/ibc.lightclients.tendermint.v1.ClientState"
MOCK_CLIENT_STATE_TYPE_URL == "/ibc.mock.ClientState"

\* prost_types::Any
RawAny(type_url, value) == [type_url |-> type_url, value |-> value]

\* the client states of the two kinds, and AnyClientState
ChainIds == {"ibc-0", "ibc-1"}
TendermintClientState(chain_id, latest_height, frozen) ==
    [chain_id |-> chain_id, latest_height |-> latest_height, frozen |-> frozen]
MockClientState(h) == [height |-> h]
TendermintClientStates ==
    {TendermintClientState(c, h, f) : c \in ChainIds, h \in Heights, f \in BOOLEAN}
MockClientStates == {MockClientState(h) : h \in Heights}
Tendermint(state) == [type |-> "Tendermint", state |-> state]
Mock(state) == [type |-> "Mock", state |-> state]
AnyClientStates(with_mocks) ==
    {Tendermint(st) : st \in TendermintClientStates}
    \cup (IF with_mocks THEN {Mock(st) : st \in MockClientStates} ELSE {})

\* Protobuf::encode_vec: the fields as (name, value) pairs, a field at its
\* default value (height 0, not frozen) left out
bool_to_string(b) == IF b THEN "true" ELSE "false"
tm_encode_vec(st) ==
    <<"chain_id", st.chain_id>>
        \o (IF st.latest_height = 0 THEN <<>>
            ELSE <<"latest_height", height_to_string(st.latest_height)>>)
        \o (IF st.frozen THEN <<"frozen", bool_to_string(st.frozen)>> ELSE <<>>)
mock_encode_vec(st) == <<"header", height_to_string(st.height)>>

\* the value of field `name` in the pairs of `bytes`: the last one given
FieldOf(bytes, name) ==
    LET is == {i \in 1..(Len(bytes) \div 2) : bytes[2 * i - 1] = name} IN
    IF is = {} THEN None
    ELSE Some(bytes[2 * (CHOOSE i \in is : \A j \in is : j <= i)])

\* Protobuf::decode_vec of the two kinds: None for a DecodeError (a truncated
\* pair, a value that does not parse, a missing chain_id or header); fields
\* of other names are skipped, absent fields take their default
tm_decode_vec(bytes) ==
    LET chain_id == FieldOf(bytes, "chain_id")
        latest_height == FieldOf(bytes, "latest_height")
        frozen == FieldOf(bytes, "frozen")
    IN IF Len(bytes) % 2 # 0 THEN None
       ELSE IF chain_id = None \/ Unwrap(chain_id) \notin ChainIds THEN None
       ELSE IF latest_height # None /\ parse_height(Unwrap(latest_height)) = None
       THEN None
       ELSE IF frozen # None /\ Unwrap(frozen) \notin {"true", "false"} THEN None
       ELSE Some(TendermintClientState(Unwrap(chain_id),
                IF latest_height = None THEN 0
                ELSE Unwrap(parse_height(Unwrap(latest_height))),
                frozen # None /\ Unwrap(frozen) = "true"))
mock_decode_vec(bytes) ==
    LET header == FieldOf(bytes, "header") IN
    IF Len(bytes) % 2 # 0 THEN None
    ELSE IF header = None \/ parse_height(Unwrap(header)) = None THEN None
    ELSE Some(MockClientState(Unwrap(parse_height(Unwrap(header)))))

\* ics02_client::error::Kind, as the error is displayed
ClientError(kind, detail) ==
    IF detail = "" THEN kind ELSE kind \o "(" \o detail \o ")"

\* `decode_vec(&raw.value).map_err(|e| Kind::InvalidRawClientState.context(e))?`
\* wrapped in the variant of the arm
DecodedAs(variant, state) ==
    IF state = None THEN TryErr(ClientError("InvalidRawClientState", ""))
    ELSE TryOk([type |-> variant, state |-> Unwrap(state)])

\* the arm of the Mock URL, compiled with cfg(any(test, feature = "mocks"))
MockArm_AlwaysCompiled(with_mocks, r) ==
    r.type_url = MOCK_CLIENT_STATE_TYPE_URL
MockArm(with_mocks, r) ==
    with_mocks /\ r.type_url = MOCK_CLIENT_STATE_TYPE_URL

\* impl TryFrom<Any> for AnyClientState
AnyClientState_try_from(with_mocks, r) ==
    IF r.type_url = "" THEN TryErr(ClientError("EmptyClientStateResponse", ""))
    ELSE IF r.type_url = TENDERMINT_CLIENT_STATE_TYPE_URL
    THEN DecodedAs("Tendermint", tm_decode_vec(r.value))
    ELSE IF MockArm(with_mocks, r)
    THEN DecodedAs("Mock", mock_decode_vec(r.value))
    ELSE TryErr(ClientError("UnknownClientStateType", r.type_url))

\* impl From<AnyClientState> for Any
Any_from_TendermintUrlOnly(value) ==
    RawAny(TENDERMINT_CLIENT_STATE_TYPE_URL,
        IF value.type = "Tendermint" THEN tm_encode_vec(value.state)
        ELSE mock_encode_vec(value.state))
Any_from(value) ==
    IF value.type = "Tendermint"
    THEN RawAny(TENDERMINT_CLIENT_STATE_TYPE_URL, tm_encode_vec(value.state))
    ELSE RawAny(MOCK_CLIENT_STATE_TYPE_URL, mock_encode_vec(value.state))

\* the envelopes that arrive: every type URL, known or not, with the
\* encoding of a client state of either kind or with bytes that are none
TypeUrls ==
    {"", TENDERMINT_CLIENT_STATE_TYPE_URL, MOCK_CLIENT_STATE_TYPE_URL,
     "/ibc.lightclients.solomachine.v1.ClientState",
     "/ibc.lightclients.tendermint.v1.ConsensusState"}
Values ==
    {tm_encode_vec(st) : st \in TendermintClientStates}
    \cup {mock_encode_vec(st) : st \in MockClientStates}
    \cup {<<>>, <<"chain_id">>, <<"chain_id", "ibc-0", "latest_height", "two">>,
          <<"header", "0-1", "chain_id", "ibc-1">>, <<"header", "one">>,
          <<"chain_id", "ibc-0", "chain_id", "ibc-1", "frozen", "false">>}
Anys == {RawAny(u, v) : u \in TypeUrls, v \in Values}

InitClientState ==
    /\ ctx = DefaultContext
    /\ msg = None
    /\ out = None
    /\ phase = "idle"
    /\ timedOut = {}
    /\ EventsIdle
    /\ StartIdle
    /\ mocks \in BOOLEAN
    /\ any = None
    /\ origin = None
    /\ converted = None

\* an envelope arrives from a chain
ReceiveAny ==
    /\ any = None
    /\ \E r \in Anys : any' = Some(r)
    /\ origin' = None
    /\ UNCHANGED <<mocks, converted>>
    /\ UNCHANGED <<vars, evars, svars>>

\* Any::from(state), for a client state of this build
IntoAny ==
    /\ any = None
    /\ \E value \in AnyClientStates(mocks) :
          /\ any' = Some(Any_from(value))
          /\ origin' = Some(value)
    /\ UNCHANGED <<mocks, converted>>
    /\ UNCHANGED <<vars, evars, svars>>

\* AnyClientState::try_from(any)
TryFromAny ==
    /\ any # None
    /\ converted = None
    /\ converted' = Some(AnyClientState_try_from(mocks, Unwrap(any)))
    /\ UNCHANGED <<mocks, any, origin>>
    /\ UNCHANGED <<vars, evars, svars>>

\* the caller is done with the result
DropClientState ==
    /\ converted # None
    /\ any' = None
    /\ origin' = None
    /\ converted' = None
    /\ UNCHANGED mocks
    /\ UNCHANGED <<vars, evars, svars>>

NextClientState ==
    \/ ReceiveAny
    \/ IntoAny
    \/ TryFromAny
    \/ DropClientState

SpecClientState == InitClientState /\ [][NextClientState]_cvars

(***************************************************************************)
(* Properties of the client state envelope.                                 *)
(***************************************************************************)
Envelope == Unwrap(any)
Converted == Unwrap(converted)

\* C25: every AnyClientState S converted to an Any carries the type URL of its
\* variant ("/ibc.lightclients.tendermint.v1.ClientState" for Tendermint,
\* "/ibc.mock.ClientState" for Mock), and AnyClientState::try_from of that Any
\* is Ok of a value equal to S, of the same variant.
C25_ClientStateRoundTrip ==
    origin # None =>
        /\ Envelope.type_url =
              IF Unwrap(origin).type = "Tendermint"
              THEN "/ibc.lightclients.tendermint.v1.ClientState"
              ELSE "/ibc.mock.ClientState"
        /\ converted # None => Converted = TryOk(Unwrap(origin))

\* a Mock client state, and a frozen Tendermint one at height 0 (whose
\* encoding leaves the height out), came back equal
C25_Witness ==
    /\ origin # None
    /\ converted # None
    /\ Converted.ok
    /\ \/ Unwrap(origin) = Mock(MockClientState(MaxHeight))
       \/ Unwrap(origin) = Tendermint(TendermintClientState("ibc-1", 0, TRUE))
    /\ Value(Converted) = Unwrap(origin)

\* C26: AnyClientState::try_from classifies by the type URL alone. An empty
\* URL gives EmptyClientStateResponse whatever the bytes; a URL that is not the
\* Tendermint one nor, in a build with mocks, the Mock one gives
\* UnknownClientStateType carrying that URL; a recognised URL gives the
\* variant it names when its bytes decode and InvalidRawClientState when they
\* do not; no input gives another variant, and none aborts.
C26_ClassifiedByTypeUrl ==
    converted # None =>
        LET url == Envelope.type_url
            is_tm == url = "/ibc.lightclients.tendermint.v1.ClientState"
            is_mock == mocks /\ url = "/ibc.mock.ClientState"
        IN /\ ~Converted.panic
           /\ url = "" => Converted = TryErr("EmptyClientStateResponse")
           /\ (url # "" /\ ~is_tm /\ ~is_mock)
                 => Converted = TryErr("UnknownClientStateType(" \o url \o ")")
           /\ is_tm =>
                 IF tm_decode_vec(Envelope.value) = None
                 THEN Converted = TryErr("InvalidRawClientState")
                 ELSE Converted.ok /\ Value(Converted).type = "Tendermint"
           /\ is_mock =>
                 IF mock_decode_vec(Envelope.value) = None
                 THEN Converted = TryErr("InvalidRawClientState")
                 ELSE Converted.ok /\ Value(Converted).type = "Mock"

\* in a build without mocks the encoding of a Mock client state arrived under
\* the Mock URL and was rejected as of unknown type
C26_Witness ==
    /\ ~mocks
    /\ converted # None
    /\ Envelope = RawAny("/ibc.mock.ClientState", mock_encode_vec(MockClientState(1)))
    /\ Converted = TryErr("UnknownClientStateType(/ibc.mock.ClientState)")

(***************************************************************************)
(* The start command of the relayer CLI.                                    *)
(***************************************************************************)
StartCmd(src_chain_id, dst_chain_id, src_port_id, src_channel_id) ==
    [src_chain_id |-> src_chain_id, dst_chain_id |-> dst_chain_id,
     src_port_id |-> src_port_id, src_channel_id |-> src_channel_id]

\* the configuration: the chains, and the connections with their paths
Connection(a_chain, b_chain, delay, paths) ==
    [a_chain |-> a_chain, b_chain |-> b_chain, delay |-> delay, paths |-> paths]
RelayPath(a_port, b_port, ordering) ==
    [a_port |-> a_port, b_port |-> b_port, ordering |-> ordering]
Config(chains, connections) == [chains |-> chains, connections |-> connections]

\* Config::find_chain
find_chain(cfg, chain_id) ==
    IF chain_id \in cfg.chains THEN Some(chain_id) ELSE None

\* Config::first_matching_path: the first connection from src_chain to
\* dst_chain, with its first path
first_matching_path(cfg, src_chain, dst_chain) ==
    LET is == {i \in 1..Len(cfg.connections) :
                  /\ cfg.connections[i].a_chain = src_chain
                  /\ cfg.connections[i].b_chain = dst_chain}
        connection == cfg.connections[CHOOSE i \in is : \A j \in is : i <= j]
    IN IF is = {} THEN None
       ELSE IF connection.paths = <<>> THEN None
       ELSE Some(<<connection, connection.paths[1]>>)

\* Kind::Config.context(e), Kind::Runtime.context(e), as displayed
Context(kind, e) == kind \o ": " \o e

\* cli_utils::spawn_chain_runtime; `up` is whether ChainRuntime::spawn succeeds
spawn_chain_runtime_NoConfigCheck(cfg, chain_id, up) ==
    IF ~up THEN TryErr(Context("Runtime", "spawn failed")) ELSE TryOk(chain_id)
spawn_chain_runtime(cfg, chain_id, up) ==
    LET chain_config == find_chain(cfg, chain_id) IN
    IF chain_config = None
    THEN TryErr(Context("Config",
            "missing chain for id (" \o chain_id \o ") in configuration file"))
    ELSE IF ~up THEN TryErr(Context("Runtime", "spawn failed"))
    ELSE TryOk(Unwrap(chain_config))

\* one call of spawn_chain_runtime, as it is logged
SpawnCall(chain_id, res) == [chain_id |-> chain_id, ok |-> res.ok]

\* ChainHandlePair::spawn: the handles spawned so far, the error if any, and
\* the calls of spawn_chain_runtime made (the `?` of line 25 returns before
\* the call of line 26)
ChainHandlePair_spawn_BothCalled(cfg, src_chain_id, dst_chain_id, src_up, dst_up) ==
    LET src == spawn_chain_runtime(cfg, src_chain_id, src_up)
        dst == spawn_chain_runtime(cfg, dst_chain_id, dst_up)
        calls == <<SpawnCall(src_chain_id, src), SpawnCall(dst_chain_id, dst)>>
    IN IF ~src.ok
       THEN [spawned |-> IF dst.ok THEN <<Value(dst)>> ELSE <<>>,
             res |-> TryErr(src.error), calls |-> calls]
       ELSE IF ~dst.ok
       THEN [spawned |-> <<Value(src)>>, res |-> TryErr(dst.error), calls |-> calls]
       ELSE [spawned |-> <<Value(src), Value(dst)>>,
             res |-> TryOk([src |-> Value(src), dst |-> Value(dst)]),
             calls |-> calls]
ChainHandlePair_spawn(cfg, src_chain_id, dst_chain_id, src_up, dst_up) ==
    LET src == spawn_chain_runtime(cfg, src_chain_id, src_up)
        dst == spawn_chain_runtime(cfg, dst_chain_id, dst_up)
    IN IF ~src.ok
       THEN [spawned |-> <<>>, res |-> TryErr(src.error),
             calls |-> <<SpawnCall(src_chain_id, src)>>]
       ELSE IF ~dst.ok
       THEN [spawned |-> <<Value(src)>>, res |-> TryErr(dst.error),
             calls |-> <<SpawnCall(src_chain_id, src), SpawnCall(dst_chain_id, dst)>>]
       ELSE [spawned |-> <<Value(src), Value(dst)>>,
             res |-> TryOk([src |-> Value(src), dst |-> Value(dst)]),
             calls |-> <<SpawnCall(src_chain_id, src), SpawnCall(dst_chain_id, dst)>>]

\* LinkParameters { src_port_id, src_channel_id }
LinkParameters_DefaultPort(src_port_id, src_channel_id) ==
    [src_port_id |-> DefaultPortId, src_channel_id |-> src_channel_id]
LinkParameters(src_port_id, src_channel_id) ==
    [src_port_id |-> src_port_id, src_channel_id |-> src_channel_id]

\* the calls into the relayer library
channel_relay(src, dst, opts) ==
    [fn |-> "channel_relay", src |-> src, dst |-> dst, opts |-> opts]
relay_on_new_link(src, dst, delay, ordering, path) ==
    [fn |-> "relay_on_new_link", src |-> src, dst |-> dst,
     opts |-> [delay |-> delay, ordering |-> ordering, path |-> path]]

\* Output::success(()) and Output::error(msg)
Output_success == [status |-> "success", msg |-> ""]
Output_error(m) == [status |-> "error", msg |-> m]

\* the Debug rendering of the command in a message
DebugCmd(c) == "StartCmd { " \o c.src_chain_id \o ", " \o c.dst_chain_id \o " }"

\* the commands and configurations
CliChainIds == ChainIds \cup {"ibc-2"}
StartCmds ==
    {StartCmd(s, d, p, c) :
        s \in CliChainIds, d \in CliChainIds,
        p \in {None} \cup {Some(x) : x \in PortIds},
        c \in {None} \cup {Some(x) : x \in ChannelIds}}
TransferPath == RelayPath("transfer", "transfer", "Unordered")
OrderedPath == RelayPath("other", "other", "Ordered")
Configs ==
    {Config(chains, connections) :
        chains \in {ChainIds, {"ibc-0"}, CliChainIds},
        connections \in
            {<<>>,
             <<Connection("ibc-0", "ibc-1", 0, <<TransferPath, OrderedPath>>)>>,
             <<Connection("ibc-1", "ibc-0", 1, <<OrderedPath>>)>>,
             <<Connection("ibc-0", "ibc-1", 0, <<>>),
               Connection("ibc-0", "ibc-1", 1, <<OrderedPath>>)>>,
             <<Connection("ibc-1", "ibc-0", 0, <<TransferPath>>),
               Connection("ibc-0", "ibc-1", 1, <<OrderedPath>>),
               Connection("ibc-0", "ibc-1", 0, <<TransferPath>>)>>}}

InitStart ==
    /\ ctx = DefaultContext
    /\ msg = None
    /\ out = None
    /\ phase = "idle"
    /\ timedOut = {}
    /\ EventsIdle
    /\ ClientStateIdle
    /\ cmd \in {Some(c) : c \in StartCmds}
    /\ config \in {Some(c) : c \in Configs}
    /\ pc = "start"
    /\ spawns = <<>>
    /\ handles = <<>>
    /\ relays = <<>>
    /\ outputs = <<>>

\* Output::exit of the given output
Exit(output) ==
    /\ outputs' = Append(outputs, output)
    /\ pc' = "exited"

\* the dispatch on (src_port_id, src_channel_id), lines 35-78, up to the call
\* of the relay function or the exit
Dispatch(c, cfg, chains) ==
    IF c.src_port_id # None /\ c.src_channel_id # None
    THEN /\ relays' = Append(relays,
                channel_relay(chains.src, chains.dst,
                    LinkParameters(Unwrap(c.src_port_id), Unwrap(c.src_channel_id))))
         /\ pc' = "relaying"
         /\ UNCHANGED outputs
    ELSE IF c.src_port_id = None /\ c.src_channel_id = None
    THEN LET relay_path == first_matching_path(cfg, c.src_chain_id, c.dst_chain_id)
         IN IF relay_path # None
            THEN /\ relays' = Append(relays,
                        relay_on_new_link(chains.src, chains.dst,
                            Unwrap(relay_path)[1].delay,
                            Unwrap(relay_path)[2].ordering,
                            Unwrap(relay_path)[2]))
                 /\ pc' = "relaying"
                 /\ UNCHANGED outputs
            ELSE /\ Exit(Output_error("No connections configured for " \o DebugCmd(c)))
                 /\ UNCHANGED relays
    ELSE /\ Exit(Output_error("Invalid parameters, either both port and channel must be specified or none: "
                        \o DebugCmd(c)))
         /\ UNCHANGED relays

\* StartCmd::run, until it exits or is inside the relay function
Run ==
    /\ pc = "start"
    /\ \E src_up \in BOOLEAN, dst_up \in BOOLEAN :
          LET c == Unwrap(cmd)
              cfg == Unwrap(config)
              chains == ChainHandlePair_spawn(cfg, c.src_chain_id, c.dst_chain_id,
                                              src_up, dst_up)
          IN /\ handles' = chains.spawned
             /\ spawns' = chains.calls
             /\ IF ~chains.res.ok
                THEN /\ Exit(Output_error(chains.res.error))
                     /\ UNCHANGED relays
                ELSE Dispatch(c, cfg, Value(chains.res))
    /\ UNCHANGED <<cmd, config>>
    /\ UNCHANGED <<vars, evars, cvars>>

\* channel_relay or relay_on_new_link returns, and run ends with its result
RelayReturns ==
    /\ pc = "relaying"
    /\ \E res \in {TryOk("()"), TryErr("link failed")} :
          IF res.ok THEN Exit(Output_success) ELSE Exit(Output_error(res.error))
    /\ UNCHANGED <<cmd, config, handles, relays, spawns>>
    /\ UNCHANGED <<vars, evars, cvars>>

NextStart ==
    \/ Run
    \/ RelayReturns

SpecStart == InitStart /\ [][NextStart]_svars

(***************************************************************************)
(* Properties of the start command.                                         *)
(***************************************************************************)
Cmd == Unwrap(cmd)
Cfg == Unwrap(config)
\* run has been called; both chain runtimes were spawned
Ran == pc \in {"relaying", "exited"}
BothSpawned == Ran /\ Len(handles) = 2
EndedWithError ==
    /\ pc = "exited"
    /\ Len(outputs) = 1
    /\ outputs[1].status = "error"

\* C27: once both chain runtimes are spawned, start dispatches on
\* (src_port_id, src_channel_id): with both, the one relay call is
\* channel_relay on the two handles with exactly that port and channel; with
\* neither, it is relay_on_new_link with the delay, ordering and path of
\* config.first_matching_path(src, dst), if there is one; with exactly one of
\* the two, no relay call is made and the command ends with an error output.
\* In every branch the command has made no output before it ends and exactly
\* one, success or error, when it has ended.
C27_StartDispatch ==
    /\ Len(outputs) <= 1
    /\ pc = "exited" <=> Len(outputs) = 1
    /\ \A i \in 1..Len(outputs) : outputs[i].status \in {"success", "error"}
    /\ BothSpawned =>
          /\ (Cmd.src_port_id # None /\ Cmd.src_channel_id # None) =>
                relays = <<[fn |-> "channel_relay",
                            src |-> Cmd.src_chain_id, dst |-> Cmd.dst_chain_id,
                            opts |-> [src_port_id |-> Unwrap(Cmd.src_port_id),
                                      src_channel_id |-> Unwrap(Cmd.src_channel_id)]]>>
          /\ (Cmd.src_port_id = None /\ Cmd.src_channel_id = None) =>
                LET relay_path ==
                       first_matching_path(Cfg, Cmd.src_chain_id, Cmd.dst_chain_id)
                IN IF relay_path = None THEN relays = <<>>
                   ELSE relays =
                          <<[fn |-> "relay_on_new_link",
                             src |-> Cmd.src_chain_id, dst |-> Cmd.dst_chain_id,
                             opts |-> [delay |-> Unwrap(relay_path)[1].delay,
                                       ordering |-> Unwrap(relay_path)[2].ordering,
                                       path |-> Unwrap(relay_path)[2]]]>>
          /\ ((Cmd.src_port_id = None) # (Cmd.src_channel_id = None)) =>
                relays = <<>> /\ EndedWithError

\* start with port "other" and channel "channel-1" ran one link and ended
\* with success
C27_Witness ==
    /\ pc = "exited"
    /\ Cmd.src_port_id = Some("other")
    /\ Cmd.src_channel_id = Some("channel-1")
    /\ Len(relays) = 1
    /\ relays[1].fn = "channel_relay"
    /\ relays[1].opts.src_port_id = "other"
    /\ outputs = <<Output_success>>

\* the chain whose runtime was not spawned: the source, or else the destination
FailedChain == IF handles = <<>> THEN Cmd.src_chain_id ELSE Cmd.dst_chain_id

\* C28: if a chain id is missing from the configuration (Kind::Config) or its
\* runtime fails to spawn (Kind::Runtime), start ends with an error output of
\* that kind and calls neither channel_relay nor relay_on_new_link; and when
\* both runtimes are spawned, neither port nor channel is given and the
\* configuration has no path from the source to the destination chain, it ends
\* with the error "No connections configured ..." and no relay call.
C28_BootstrapErrorsAreFatal ==
    Ran =>
        /\ (Cmd.src_chain_id \notin Cfg.chains \/ Cmd.dst_chain_id \notin Cfg.chains)
              => ~BothSpawned
        /\ ~BothSpawned =>
              /\ relays = <<>>
              /\ EndedWithError
              /\ outputs[1].msg =
                    IF FailedChain \notin Cfg.chains
                    THEN "Config: missing chain for id (" \o FailedChain
                             \o ") in configuration file"
                    ELSE "Runtime: spawn failed"
        /\ (/\ BothSpawned
            /\ Cmd.src_port_id = None
            /\ Cmd.src_channel_id = None
            /\ first_matching_path(Cfg, Cmd.src_chain_id, Cmd.dst_chain_id) = None)
              => /\ relays = <<>>
                 /\ outputs = <<Output_error("No connections configured for "
                                                \o DebugCmd(Cmd))>>

\* the destination chain is missing from the configuration, after the source
\* runtime was spawned
C28_Witness ==
    /\ pc = "exited"
    /\ handles = <<"ibc-0">>
    /\ Cmd.dst_chain_id = "ibc-2"
    /\ "ibc-2" \notin Cfg.chains
    /\ relays = <<>>
    /\ outputs = <<Output_error("Config: missing chain for id (ibc-2) in configuration file")>>

\* C37: ChainHandlePair::spawn calls spawn_chain_runtime for the source
\* chain first and for the destination chain second, and returns a pair only
\* if both return a handle: when the source call fails the destination call
\* is never made and no runtime exists; when the destination call fails after
\* the source succeeded, the error of the destination is returned with no
\* pair (no relay is started), and the source runtime, already spawned, is
\* still there.
C37_SpawnSourceThenDestination ==
    Ran =>
        /\ Len(spawns) \in {1, 2}
        /\ spawns[1].chain_id = Cmd.src_chain_id
        /\ ~spawns[1].ok =>
              /\ Len(spawns) = 1
              /\ handles = <<>>
              /\ relays = <<>>
              /\ EndedWithError
        /\ spawns[1].ok =>
              /\ Len(spawns) = 2
              /\ spawns[2].chain_id = Cmd.dst_chain_id
              /\ ~spawns[2].ok =>
                    /\ handles = <<Cmd.src_chain_id>>
                    /\ relays = <<>>
                    /\ EndedWithError
                    /\ outputs[1].msg =
                          IF Cmd.dst_chain_id \notin Cfg.chains
                          THEN "Config: missing chain for id (" \o Cmd.dst_chain_id
                                   \o ") in configuration file"
                          ELSE "Runtime: spawn failed"
              /\ spawns[2].ok => handles = <<Cmd.src_chain_id, Cmd.dst_chain_id>>
        /\ BothSpawned <=> \A i \in 1..Len(spawns) : spawns[i].ok

\* the runtime of ibc-0 was spawned, then that of ibc-1, a configured chain,
\* failed to spawn
C37_Witness ==
    /\ pc = "exited"
    /\ spawns = <<[chain_id |-> "ibc-0", ok |-> TRUE],
                  [chain_id |-> "ibc-1", ok |-> FALSE]>>
    /\ "ibc-1" \in Cfg.chains
    /\ handles = <<"ibc-0">>
    /\ relays = <<>>
    /\ outputs = <<Output_error("Runtime: spawn failed")>>

====
